---- MODULE Spec2Model ----
(***************************************************************************)
(* Client-side network reconciliation of grumpy_visitors:                  *)
(* bins/client/src/ecs/systems/client_network.rs, ClientNetworkSystem::run *)
(* and its helpers apply_world_updates, collect_controlled_player_updates  *)
(* and discard_walk_actions.                                               *)
(*                                                                         *)
(* One run of the system (a tick) is modelled in three positions:          *)
(*   TickBegin      lines  97-198  (ui command, bootstrap, disconnect)     *)
(*   DispatchEvent  lines 200-415  (one iteration of the drain loop)       *)
(*   TickEnd        lines 417-481  (heartbeat and pacing)                  *)
(* No other action is enabled while a tick is under way.                   *)
(***************************************************************************)
EXTENDS Integers, Sequences, FiniteSets, TLC

VARIABLES
    multiplayer_room_state,     \* MultiplayerRoomState
    multiplayer_game_state,     \* MultiplayerGameState
    last_acknowledged_update,   \* LastAcknowledgedUpdate {id, frame_number}
    framed_updates,             \* FramedUpdates<ReceivedServerWorldUpdate>
    spawn_actions,              \* FramedUpdates<SpawnActions>
    player_actions_updates,     \* FramedUpdates<PlayerActionUpdates>
    net_connection_models,      \* WriteStorage<NetConnectionModel>: 0 or more records
    connection_events,          \* ConnectionEvents: the inbound queue
    transport,                  \* messages handed to the transport, in order
    game_engine_state,          \* GameEngineState
    new_game_engine_state,      \* NewGameEngineState
    server_command,             \* ServerCommand {started, exit_code}
    ui_network_command,         \* UiNetworkCommandResource.command
    session_id_autoinc,         \* ClientNetworkSystem.session_id_autoinc
    last_heartbeat_frame,       \* ClientNetworkSystem.last_heartbeat_frame
    game_time,                  \* GameTimeService readings for the tick
    pc,                         \* position inside run: idle, dispatch, panicked
    last_event                  \* history: the event the drain loop of this run
                                \* took last, and how

vars == <<multiplayer_room_state, multiplayer_game_state, last_acknowledged_update,
          framed_updates, spawn_actions, player_actions_updates,
          net_connection_models, connection_events, transport, game_engine_state,
          new_game_engine_state, server_command, ui_network_command,
          session_id_autoinc, last_heartbeat_frame, game_time, pc,
          last_event>>

----------------------------------------------------------------------------
(* Program constants *)

HEARTBEAT_FRAME_INTERVAL == 10

INTERPOLATION_FRAME_DELAY == 10

PAUSE_FRAME_THRESHOLD == 20

----------------------------------------------------------------------------
(* Bounds of the model *)

MaxQueue == 2

MaxUpdateId == 2
MaxPauseId == 3
MaxActionId == 2
MaxBufferedFrame == 1
MaxFront == 2
MaxSessions == 2

----------------------------------------------------------------------------
(* Small helpers *)

Max(a, b) == IF a >= b THEN a ELSE b

\* u64::saturating_sub
saturating_sub(a, b) == IF a >= b THEN a - b ELSE 0

\* Vec::remove(i), 1-based here
RemoveAt(s, i) == [j \in 1..(Len(s) - 1) |-> IF j < i THEN s[j] ELSE s[j + 1]]

\* The least member of a non-empty set of indexes, 0 for the empty set
\* (Iterator::position, with indexes from 1 and 0 for None)
FirstIndex(indexes) ==
    IF indexes = {} THEN 0 ELSE CHOOSE i \in indexes : \A j \in indexes : i <= j

\* slice::contains
Contains(s, x) == \E i \in 1..Len(s) : s[i] = x

RECURSIVE InsertByFrame(_, _)
InsertByFrame(sorted, u) ==
    IF sorted = <<>> THEN <<u>>
    ELSE IF Head(sorted).frame_number <= u.frame_number
         THEN <<Head(sorted)>> \o InsertByFrame(Tail(sorted), u)
         ELSE <<u>> \o sorted

\* updates.sort_by(|a, b| a.frame_number.cmp(&b.frame_number)): a stable sort
RECURSIVE SortByFrame(_)
SortByFrame(s) ==
    IF s = <<>> THEN <<>>
    ELSE InsertByFrame(SortByFrame(SubSeq(s, 1, Len(s) - 1)), s[Len(s)])

----------------------------------------------------------------------------
(* ConnectionStatus *)

StDisconnected(reason) == [tag |-> "Disconnected", val |-> reason]
\* Connecting(started_at): the instant is read only against the clock (line 406)
StConnecting == [tag |-> "Connecting", val |-> "started_at"]
StConnected(id) == [tag |-> "Connected", val |-> id]
StDisconnecting == [tag |-> "Disconnecting", val |-> "None"]
StConnectionFailed == [tag |-> "ConnectionFailed", val |-> "None"]

is_connected(status) == status.tag = "Connected"
is_connecting(status) == status.tag = "Connecting"
is_not_connected(status) == status.tag \in {"Disconnected", "ConnectionFailed"}
\* ConnectionStatus::connection_id(): Some(id) only when Connected; 0 stands for None
\* (connection ids of the model are positive)
connection_id(status) == IF status.tag = "Connected" THEN status.val ELSE 0

----------------------------------------------------------------------------
(* FramedUpdates<T> *)

EmptyPlayerUpdate == [player_walk_actions_updates |-> <<>>,
                      player_cast_actions_updates |-> <<>>]

NoServerUpdate == [player_walk_actions_updates |-> <<>>,
                   player_cast_actions_updates |-> <<>>,
                   player_look_actions_updates |-> <<>>]

\* ReceivedServerWorldUpdate::new(frame_number)
NewReceivedServerWorldUpdate(f) ==
    [frame_number |-> f,
     controlled_player_updates |-> EmptyPlayerUpdate,
     server_update |-> NoServerUpdate]

\* SpawnActions::new(frame_number)
NewSpawnActions(f) == [frame_number |-> f, spawn_actions |-> <<>>]

\* PlayerActionUpdates::new(frame_number)
NewPlayerActionUpdates(f) == [frame_number |-> f, walk_action_updates |-> <<>>]

EmptyFramedUpdates == [oldest_updated_frame |-> 0, updates |-> <<>>]

\* FramedUpdates::reserve_updates: grow the back up to frame_number
\* with slots T::new(frame), given here as the empty slot of the buffer
reserve_updates(fb, frame_number, empty_slot) ==
    LET n == Len(fb.updates)
        next == IF n = 0 THEN 0 ELSE fb.updates[n].frame_number + 1
    IN  [fb EXCEPT !.updates =
            fb.updates \o [i \in 1..Max(0, frame_number + 1 - next) |->
                            [empty_slot EXCEPT !.frame_number = next + i - 1]]]

\* A slip in updates_iter_mut: the start frame is not looked at
updates_iter_mut_FromFront(fb, start) == [i \in 1..Len(fb.updates) |-> i]

\* FramedUpdates::updates_iter_mut(start): the indexes of the slots from
\* frame `start` on, in order
updates_iter_mut(fb, start) ==
    LET n == Len(fb.updates)
        front == IF n = 0 THEN 0 ELSE fb.updates[1].frame_number
        skip == saturating_sub(start, front)
    IN  [i \in 1..Max(0, n - skip) |-> skip + i]

\* ReceivedServerWorldUpdate::apply_server_update
apply_server_update(slot, server_update) ==
    [slot EXCEPT !.server_update =
        [player_walk_actions_updates |-> server_update.player_walk_actions_updates,
         player_cast_actions_updates |-> server_update.player_cast_actions_updates,
         player_look_actions_updates |-> server_update.player_look_actions_updates]]

----------------------------------------------------------------------------
(* Reconciliation: lines 516-655 *)

\* .iter().position(|action| controlled_players.contains(&action.entity_net_id))
controlled_position(controlled_players, actions) ==
    FirstIndex({i \in 1..Len(actions) : Contains(controlled_players, actions[i].entity_net_id)})

\* One step of the map closure of collect_controlled_player_updates
\* (lines 591-626): the controlled player's first walk and cast action move
\* into a ReceivedPlayerUpdate, its first look action is dropped.
extract_controlled(controlled_players, update) ==
    LET walk_action_pos ==
            controlled_position(controlled_players, update.player_walk_actions_updates)
        cast_action_pos ==
            controlled_position(controlled_players, update.player_cast_actions_updates)
        look_action_pos ==
            controlled_position(controlled_players, update.player_look_actions_updates)
    IN  [controlled |->
            [player_walk_actions_updates |->
                IF walk_action_pos # 0
                THEN <<update.player_walk_actions_updates[walk_action_pos]>> ELSE <<>>,
             player_cast_actions_updates |->
                IF cast_action_pos # 0
                THEN <<update.player_cast_actions_updates[cast_action_pos]>> ELSE <<>>],
         update |->
            [update EXCEPT
                !.player_walk_actions_updates =
                    IF walk_action_pos # 0 THEN RemoveAt(@, walk_action_pos) ELSE @,
                !.player_cast_actions_updates =
                    IF cast_action_pos # 0 THEN RemoveAt(@, cast_action_pos) ELSE @,
                !.player_look_actions_updates =
                    IF look_action_pos # 0 THEN RemoveAt(@, look_action_pos) ELSE @]]

\* skip_while(|update| update.frame_number < INTERPOLATION_FRAME_DELAY):
\* the number of leading updates skipped
RECURSIVE skipped_on_start(_)
skipped_on_start(incoming_updates) ==
    IF incoming_updates = <<>> THEN 0
    ELSE IF Head(incoming_updates).frame_number < INTERPOLATION_FRAME_DELAY
         THEN 1 + skipped_on_start(Tail(incoming_updates))
         ELSE 0

\* collect_controlled_player_updates: the collected ReceivedPlayerUpdates and
\* incoming_updates as the call leaves it
collect_controlled_player_updates(controlled_players, incoming_updates) ==
    LET k == skipped_on_start(incoming_updates)
        n == Len(incoming_updates)
    IN  [controlled_player_updates |->
            [i \in 1..(n - k) |->
                extract_controlled(controlled_players, incoming_updates[k + i]).controlled],
         incoming_updates |->
            [i \in 1..n |->
                IF i <= k THEN incoming_updates[i]
                ELSE extract_controlled(controlled_players, incoming_updates[i]).update]]

\* The loop of lines 567-578 over the slot indexes idxs
RECURSIVE merge_framed_updates(_, _, _, _, _)
merge_framed_updates(updates, idxs, controlled, incoming, others_start_frame_number) ==
    IF idxs = <<>> THEN updates
    ELSE
        LET i == Head(idxs)
            with_controlled ==
                IF controlled # <<>>
                THEN [updates[i] EXCEPT !.controlled_player_updates = Head(controlled)]
                ELSE updates[i]
            controlled_rest == IF controlled # <<>> THEN Tail(controlled) ELSE controlled
        IN  IF with_controlled.frame_number >= others_start_frame_number
            THEN IF incoming = <<>>
                 THEN [updates EXCEPT ![i] = with_controlled]
                 ELSE merge_framed_updates(
                        [updates EXCEPT ![i] = apply_server_update(with_controlled, Head(incoming))],
                        Tail(idxs), controlled_rest, Tail(incoming), others_start_frame_number)
            ELSE merge_framed_updates([updates EXCEPT ![i] = with_controlled],
                        Tail(idxs), controlled_rest, incoming, others_start_frame_number)

\* The zip loop of lines 556-561
merge_spawn_actions(updates, idxs, incoming) ==
    [i \in 1..Len(updates) |->
        IF \E k \in 1..Len(idxs) : idxs[k] = i /\ k <= Len(incoming)
        THEN LET k == CHOOSE k \in 1..Len(idxs) : idxs[k] = i
             IN  [updates[i] EXCEPT !.spawn_actions = incoming[k].spawn_actions]
        ELSE updates[i]]

\* A slip in lines 527-531: the first frame is compared as it came
too_old_server_update_Undelayed(fu, incoming_updates) ==
    ~(incoming_updates[1].frame_number >= fu.updates[1].frame_number)

\* The assertion of lines 527-538
too_old_server_update(fu, incoming_updates) ==
    LET first_incoming_frame_number ==
            saturating_sub(incoming_updates[1].frame_number, INTERPOLATION_FRAME_DELAY)
        first_available_frame_number == fu.updates[1].frame_number
    IN  ~(first_incoming_frame_number >= first_available_frame_number)

\* A slip in lines 543-553: one delayed start frame for both kinds of update
start_frame_numbers_SameOffset(update) ==
    [controlled |-> saturating_sub(update.frame_number, INTERPOLATION_FRAME_DELAY),
     others |-> saturating_sub(update.frame_number, INTERPOLATION_FRAME_DELAY)]

\* Lines 543-553: (controlled_start_frame_number, others_start_frame_number)
start_frame_numbers(update) ==
    [controlled |-> saturating_sub(update.frame_number, INTERPOLATION_FRAME_DELAY),
     others |-> update.frame_number]

\* apply_world_updates; incoming_updates is sorted (lowest frame first)
apply_world_updates(controlled_players, fu, sa, incoming_updates) ==
    IF incoming_updates = <<>>
    THEN [framed_updates |-> fu, spawn_actions |-> sa, panicked |-> FALSE]
    ELSE IF fu.updates = <<>> \/ too_old_server_update(fu, incoming_updates)
    THEN [framed_updates |-> fu, spawn_actions |-> sa, panicked |-> TRUE]
    ELSE
        LET collected == collect_controlled_player_updates(controlled_players, incoming_updates)
            incoming == collected.incoming_updates
            controlled_start_frame_number == start_frame_numbers(incoming[1]).controlled
            others_start_frame_number == start_frame_numbers(incoming[1]).others
        IN  [framed_updates |->
                [oldest_updated_frame |-> controlled_start_frame_number,
                 updates |-> merge_framed_updates(fu.updates,
                                updates_iter_mut(fu, controlled_start_frame_number),
                                collected.controlled_player_updates, incoming,
                                others_start_frame_number)],
             spawn_actions |->
                [oldest_updated_frame |-> others_start_frame_number,
                 updates |-> merge_spawn_actions(sa.updates,
                                updates_iter_mut(sa, others_start_frame_number), incoming)],
             panicked |-> FALSE]

\* The retain closure of lines 637-648 over one frame's walk actions
RECURSIVE retain_walk_actions(_, _)
retain_walk_actions(walk_action_updates, discarded_updates) ==
    IF walk_action_updates = <<>>
    THEN [kept |-> <<>>, discarded_updates |-> discarded_updates, removed |-> FALSE]
    ELSE
        LET net_update == Head(walk_action_updates)
            i == FirstIndex({k \in 1..Len(discarded_updates) :
                                discarded_updates[k] = net_update.data.client_action_id})
            rest == retain_walk_actions(Tail(walk_action_updates),
                        IF i # 0 THEN RemoveAt(discarded_updates, i) ELSE discarded_updates)
        IN  IF i # 0
            THEN [rest EXCEPT !.removed = TRUE]
            ELSE [rest EXCEPT !.kept = <<net_update>> \o @]

\* The loop of lines 635-653 from slot index i down to the front
RECURSIVE discard_from(_, _, _, _)
discard_from(updates, i, discarded_updates, oldest_updated_frame) ==
    IF i = 0 THEN [updates |-> updates, oldest_updated_frame |-> oldest_updated_frame]
    ELSE
        LET r == retain_walk_actions(updates[i].walk_action_updates, discarded_updates)
            updates1 == [updates EXCEPT ![i].walk_action_updates = r.kept]
            oldest1 == IF r.removed THEN updates[i].frame_number ELSE oldest_updated_frame
        IN  IF r.discarded_updates = <<>>
            THEN [updates |-> updates1, oldest_updated_frame |-> oldest1]
            ELSE discard_from(updates1, i - 1, r.discarded_updates, oldest1)

\* discard_walk_actions
discard_walk_actions(client_player_updates, discarded_updates) ==
    discard_from(client_player_updates.updates, Len(client_player_updates.updates),
                 discarded_updates, client_player_updates.oldest_updated_frame)

----------------------------------------------------------------------------
(* Messages *)

Reliable(payload) == [reliable |-> TRUE, payload |-> payload]
Unreliable(payload) == [reliable |-> FALSE, payload |-> payload]

\* ClientMessagePayload
JoinRoom(nickname) == [type |-> "JoinRoom", arg |-> nickname]
StartHostedGame == [type |-> "StartHostedGame", arg |-> 0]
ClientDisconnect == [type |-> "Disconnect", arg |-> 0]
ClientHeartbeat == [type |-> "Heartbeat", arg |-> 0]
AcknowledgeWorldUpdate(id) == [type |-> "AcknowledgeWorldUpdate", arg |-> id]
Kick(kicked_connection_id) == [type |-> "Kick", arg |-> kicked_connection_id]

\* NetEvent
Message(session_id, payload) ==
    [kind |-> "Message", session_id |-> session_id, payload |-> payload]
NetDisconnected == [kind |-> "Disconnected"]
NetConnected == [kind |-> "Connected"]

\* ServerMessagePayload
Handshake(net_id, is_host) == [type |-> "Handshake", net_id |-> net_id, is_host |-> is_host]
UpdateRoomPlayers(players) == [type |-> "UpdateRoomPlayers", players |-> players]
StartGame(entity_net_ids) == [type |-> "StartGame", entity_net_ids |-> entity_net_ids]
UpdateWorld(id, updates) == [type |-> "UpdateWorld", id |-> id, updates |-> updates]
DiscardWalkActions(ids) == [type |-> "DiscardWalkActions", ids |-> ids]
PauseWaitingForPlayers(id, players) ==
    [type |-> "PauseWaitingForPlayers", id |-> id, players |-> players]
UnpauseWaitingForPlayers(id) == [type |-> "UnpauseWaitingForPlayers", id |-> id]
ServerDisconnect(reason) == [type |-> "Disconnect", reason |-> reason]
ServerHeartbeat == [type |-> "Heartbeat"]

IsMessage(e) == e.kind = "Message"
IsPayload(e, type) == e.kind = "Message" /\ e.payload.type = type

----------------------------------------------------------------------------
(* The resources of one run, as one record *)

State ==
    [room |-> multiplayer_room_state,
     game |-> multiplayer_game_state,
     ack |-> last_acknowledged_update,
     fu |-> framed_updates,
     sa |-> spawn_actions,
     pau |-> player_actions_updates,
     models |-> net_connection_models,
     out |-> transport,
     nges |-> new_game_engine_state,
     sc |-> server_command,
     ui |-> ui_network_command,
     sid |-> session_id_autoinc,
     hb |-> last_heartbeat_frame,
     returned |-> FALSE,
     panicked |-> FALSE]

Panic(s) == [s EXCEPT !.panicked = TRUE]
Return(s) == [s EXCEPT !.returned = TRUE]

\* The run has returned or panicked: no later statement runs
Ended(s) == s.returned \/ s.panicked

\* send_message_reliable / send_message_unreliable
Send(s, message) == [s EXCEPT !.out = Append(@, message)]

----------------------------------------------------------------------------
(* The arms of the dispatch: lines 246-414 *)

\* A slip in line 263: the join is sent whether or not it was sent before
HandshakeArm_AlwaysJoins(s, net_id, is_host) ==
    [Send(s, Reliable(JoinRoom(s.room.nickname))) EXCEPT
        !.room.has_sent_join_message = TRUE,
        !.room.connection_status = StConnected(net_id),
        !.room.is_host = is_host]

\* Lines 252-281
HandshakeArm(s, net_id, is_host) ==
    LET joined ==
            IF ~s.room.has_sent_join_message
            THEN Send([s EXCEPT !.room.has_sent_join_message = TRUE],
                      Reliable(JoinRoom(s.room.nickname)))
            ELSE s
    IN  [joined EXCEPT !.room.connection_status = StConnected(net_id),
                       !.room.is_host = is_host]

\* Lines 282-285
UpdateRoomPlayersArm(s, players) == [s EXCEPT !.game.players = players]

\* The loop of lines 300-314: the roster with the entity ids assigned by
\* position, as far as entity_net_ids reaches
AssignEntityNetIds(players, entity_net_ids) ==
    [i \in 1..Len(players) |->
        IF i <= Len(entity_net_ids)
        THEN [players[i] EXCEPT !.entity_net_id = entity_net_ids[i]]
        ELSE players[i]]

\* Line 306: the roster positions the loop reached that hold our connection id
OurPositions(players, reached, id) ==
    {i \in 1..reached : players[i].connection_id = id}

\* A slip in lines 315-320: the check of found_ourselves is missing
FoundOurselves_Unchecked(ours) == TRUE

\* Lines 297, 311, 315
FoundOurselves(ours) == ours # {}

\* Lines 286-323
StartGameArm(s, entity_net_ids) ==
    LET reset == [s EXCEPT !.ack = [id |-> 0, frame_number |-> 0]]
        id == connection_id(s.room.connection_status)
        players == AssignEntityNetIds(s.game.players, entity_net_ids)
        reached == IF Len(players) <= Len(entity_net_ids)
                   THEN Len(players) ELSE Len(entity_net_ids)
        ours == OurPositions(players, reached, id)
        found_ourselves == FoundOurselves(ours)
        assigned ==
            [reset EXCEPT
                !.game.players = players,
                !.room.player_net_id =
                    IF ours # {}
                    THEN players[CHOOSE i \in ours : \A j \in ours : j <= i].entity_net_id
                    ELSE @]
    IN  IF ~is_connected(s.room.connection_status)
        THEN Panic(reset)
        ELSE IF Len(players) > Len(entity_net_ids)
        THEN Panic(assigned)
        ELSE IF ~found_ourselves
        THEN Panic(assigned)
        ELSE [assigned EXCEPT !.game.is_playing = TRUE, !.nges = "Playing"]

\* A slip in lines 335-341: the batch's last frame taken as it is
AckFrameNumber_NoMax(frame_number, updates) ==
    IF updates = <<>> THEN 0 ELSE updates[Len(updates)].frame_number

\* Lines 335-341; updates is sorted
AckFrameNumber(frame_number, updates) ==
    Max(frame_number, IF updates = <<>> THEN 0 ELSE updates[Len(updates)].frame_number)

\* Lines 331-355: the batch is absorbed
AbsorbWorldUpdate(s, id, unsorted_updates, game_frame_number) ==
    LET updates == SortByFrame(unsorted_updates)
        frame_number == AckFrameNumber(s.ack.frame_number, updates)
        frame_to_reserve == Max(frame_number, game_frame_number)
        applied == apply_world_updates(
                        <<s.room.player_net_id>>,
                        reserve_updates(s.fu, frame_to_reserve, NewReceivedServerWorldUpdate(0)),
                        reserve_updates(s.sa, frame_to_reserve, NewSpawnActions(0)),
                        updates)
    IN  [s EXCEPT !.ack = [id |-> id, frame_number |-> frame_number],
                  !.fu = applied.framed_updates,
                  !.sa = applied.spawn_actions,
                  !.panicked = applied.panicked]

\* A slip in line 331: a repeated id passes
IsNewWorldUpdate_OrEqual(ack, id) == ack.id <= id

\* Line 331
IsNewWorldUpdate(ack, id) == ack.id < id

\* Lines 324-356
UpdateWorldArm(s, id, updates, game_frame_number) ==
    LET acked == Send(s, Unreliable(AcknowledgeWorldUpdate(id)))
    IN  IF IsNewWorldUpdate(s.ack, id)
        THEN AbsorbWorldUpdate(acked, id, updates, game_frame_number)
        ELSE acked

\* A slip in line 654: the buffer keeps its oldest_updated_frame
DiscardWalkActionsArm_KeepsOldest(s, discarded_actions) ==
    LET r == discard_walk_actions(s.pau, discarded_actions)
    IN  [s EXCEPT !.pau = [oldest_updated_frame |-> s.pau.oldest_updated_frame,
                           updates |-> r.updates]]

\* Lines 357-359
DiscardWalkActionsArm(s, discarded_actions) ==
    LET r == discard_walk_actions(s.pau, discarded_actions)
    IN  [s EXCEPT !.pau = [oldest_updated_frame |-> r.oldest_updated_frame,
                           updates |-> r.updates]]

\* Line 361
IsNewPause(waiting_for_players_pause_id, id) == waiting_for_players_pause_id < id

\* A slip in line 369: the strict comparison of the Pause arm
IsCurrentUnpause_Strict(waiting_for_players_pause_id, id) ==
    waiting_for_players_pause_id < id

\* Line 369
IsCurrentUnpause(waiting_for_players_pause_id, id) == waiting_for_players_pause_id <= id

\* Lines 360-367
PauseWaitingForPlayersArm(s, id, players) ==
    IF IsNewPause(s.game.waiting_for_players_pause_id, id)
    THEN [s EXCEPT !.game.waiting_for_players_pause_id = id,
                   !.game.lagging_players = players]
    ELSE s

\* Lines 368-374
UnpauseWaitingForPlayersArm(s, id) ==
    IF IsCurrentUnpause(s.game.waiting_for_players_pause_id, id)
    THEN [s EXCEPT !.game.waiting_for_players = FALSE,
                   !.game.waiting_for_players_pause_id = id,
                   !.game.lagging_players = <<>>]
    ELSE s

\* A slip in lines 375-395: the test for a shutdown by the host is left out
DisconnectArm_OverwritesDisconnecting(s, disconnect_reason) ==
    IF ~is_not_connected(s.room.connection_status)
    THEN [s EXCEPT !.room.connection_status = StDisconnected(disconnect_reason)]
    ELSE s

\* Lines 375-395
DisconnectArm(s, disconnect_reason) ==
    IF ~is_not_connected(s.room.connection_status)
    THEN LET is_shutting_down_by_host == s.room.connection_status.tag = "Disconnecting"
         IN  IF ~is_shutting_down_by_host
             THEN [s EXCEPT !.room.connection_status = StDisconnected(disconnect_reason)]
             ELSE s
    ELSE s

\* Lines 399-412; within_grace is the clock test of line 406
NetDisconnectedArm(s, within_grace) ==
    LET is_not_connected_ ==
            IF is_connecting(s.room.connection_status)
            THEN within_grace
            ELSE is_not_connected(s.room.connection_status)
    IN  IF ~is_not_connected_
        THEN [s EXCEPT !.room.connection_status = StConnectionFailed]
        ELSE s

\* Lines 246-396: the match on the payload
PayloadArm(s, payload, game_frame_number) ==
    CASE payload.type = "Handshake" -> HandshakeArm(s, payload.net_id, payload.is_host)
      [] payload.type = "UpdateRoomPlayers" -> UpdateRoomPlayersArm(s, payload.players)
      [] payload.type = "StartGame" -> StartGameArm(s, payload.entity_net_ids)
      [] payload.type = "UpdateWorld" ->
            UpdateWorldArm(s, payload.id, payload.updates, game_frame_number)
      [] payload.type = "DiscardWalkActions" -> DiscardWalkActionsArm(s, payload.ids)
      [] payload.type = "PauseWaitingForPlayers" ->
            PauseWaitingForPlayersArm(s, payload.id, payload.players)
      [] payload.type = "UnpauseWaitingForPlayers" ->
            UnpauseWaitingForPlayersArm(s, payload.id)
      [] payload.type = "Disconnect" -> DisconnectArm(s, payload.reason)
      [] OTHER -> s

\* A slip in lines 201-214: world updates are let through as well
IgnoredAsDisconnected_ExceptUpdateWorld(model, e) ==
    /\ model.disconnected
    /\ ~(e.kind = "Disconnected" \/ IsPayload(e, "Handshake") \/ IsPayload(e, "UpdateWorld"))

\* Lines 201-214: the filter for a record marked disconnected
IgnoredAsDisconnected(model, e) ==
    model.disconnected /\ ~(e.kind = "Disconnected" \/ IsPayload(e, "Handshake"))

\* A slip in lines 216-221: world updates pass whatever their session
IgnoredBySession_ExceptUpdateWorld(model, e) ==
    /\ IsMessage(e)
    /\ e.session_id # model.session_id
    /\ e.payload.type # "UpdateWorld"

\* Lines 216-221: the session filter
IgnoredBySession(model, e) ==
    IsMessage(e) /\ e.session_id # model.session_id

\* A slip in lines 223-239: StartGame is missing from the list
IgnoredWhilePlaying_ExceptStartGame(game, e) ==
    /\ game.is_playing
    /\ IsMessage(e)
    /\ e.payload.type \in {"Handshake", "UpdateRoomPlayers"}

\* Lines 223-239: the filter of lobby payloads during a game
IgnoredWhilePlaying(game, e) ==
    /\ game.is_playing
    /\ IsMessage(e)
    /\ e.payload.type \in {"Handshake", "UpdateRoomPlayers", "StartGame"}

\* What one iteration of the drain loop does with the event
Outcome(s, e) ==
    IF IgnoredAsDisconnected(s.models[1], e) THEN "ignored_disconnected"
    ELSE IF IgnoredBySession(s.models[1], e) THEN "ignored_session"
    ELSE IF IgnoredWhilePlaying(s.game, e) THEN "ignored_playing"
    ELSE "handled"

\* Lines 200-415: one iteration of the drain loop
ProcessEvent(s, e, game_frame_number, within_grace) ==
    IF Outcome(s, e) # "handled" THEN s
    ELSE IF e.kind = "Message" THEN PayloadArm(s, e.payload, game_frame_number)
    ELSE IF e.kind = "Disconnected" THEN NetDisconnectedArm(s, within_grace)
    ELSE s

----------------------------------------------------------------------------
(* The head of run: lines 97-198 *)

NoCommand == [type |-> "None", player_number |-> 0]
KickCommand(player_number) == [type |-> "Kick", player_number |-> player_number]

\* NetConnectionModel::new(0, session_id, addr)
NewNetConnectionModel(session_id) ==
    [id |-> 0, session_id |-> session_id, disconnected |-> FALSE]

\* Lines 97-105 and process_ui_network_command (lines 493-514)
ProcessUiNetworkCommand(s) ==
    LET taken == [s EXCEPT !.ui = NoCommand]
    IN  IF s.ui.type = "Kick"
        THEN IF s.models = <<>> \/ s.ui.player_number >= Len(s.game.players)
             THEN Panic(taken)
             ELSE Send(taken,
                    Reliable(Kick(s.game.players[s.ui.player_number + 1].connection_id)))
        ELSE taken

\* A slip in lines 107-109: a host that is connecting counts as joining
IsJoining_AnyConnecting(room) ==
    \/ is_connected(room.connection_status)
    \/ is_connecting(room.connection_status)

\* Lines 107-109
IsJoining(room) ==
    \/ is_connected(room.connection_status)
    \/ is_connecting(room.connection_status) /\ ~room.is_host

\* Lines 50-54. wrapping_add wraps at 2^64, which no run of the model reaches.
next_session_id(s) == [s EXCEPT !.sid = @ + 1]

\* Lines 110-140
Bootstrap(s) ==
    IF ~s.room.is_active
    THEN Return([s EXCEPT !.models = <<>>])
    ELSE IF Len(s.models) = 0 /\ IsJoining(s.room)
    THEN LET net_connection_model == NewNetConnectionModel(s.sid)
             allocated == next_session_id(s)
             joined ==
                IF ~s.room.is_host /\ ~s.room.has_sent_join_message
                THEN Send([allocated EXCEPT !.room.has_sent_join_message = TRUE],
                          Reliable(JoinRoom(s.room.nickname)))
                ELSE allocated
         IN  [joined EXCEPT !.models = Append(@, net_connection_model)]
    ELSE s

\* Lines 142-156
SendStartHostedGame(s) ==
    IF s.room.is_host /\ s.room.has_started /\ ~s.room.has_sent_start_message
    THEN IF s.models = <<>>
         THEN Panic([s EXCEPT !.room.has_sent_start_message = TRUE])
         ELSE Send([s EXCEPT !.room.has_sent_start_message = TRUE],
                   Reliable(StartHostedGame))
    ELSE s

\* ServerCommand: exit_code is Running until the child has exited, Signalled
\* when it exited without a code
Running == -1
Signalled == -2

\* Lines 158-170
ProbeServerCommand(s) ==
    IF s.sc.started /\ s.sc.exit_code # Running
    THEN IF s.sc.exit_code = Signalled
         THEN Panic(s)
         ELSE [s EXCEPT
                !.room.connection_status =
                    IF s.sc.exit_code = 0
                    THEN StDisconnected("Closed")
                    ELSE StDisconnected("ServerCrashed"),
                !.sc.started = FALSE]
    ELSE s

\* Lines 172-177
ReturnWithoutConnection(s, engine_state) ==
    IF Len(s.models) = 0
    THEN Return(IF s.game.is_playing /\ engine_state = "Playing"
                THEN [s EXCEPT !.game.is_disconnected = TRUE]
                ELSE s)
    ELSE s

\* A slip in lines 185-198: the status of a host is closed as well
PendingDisconnect_ClosesHost(s) ==
    IF s.room.pending_disconnecting
    THEN [Send([s EXCEPT !.room.pending_disconnecting = FALSE,
                         !.models[1].disconnected = TRUE],
               Reliable(ClientDisconnect))
            EXCEPT !.room.connection_status = StDisconnected("Closed")]
    ELSE s

\* Lines 185-198
PendingDisconnect(s) ==
    IF s.room.pending_disconnecting
    THEN LET closed ==
                Send([s EXCEPT !.room.pending_disconnecting = FALSE,
                               !.models[1].disconnected = TRUE],
                     Reliable(ClientDisconnect))
         IN  IF ~s.room.is_host
             THEN [closed EXCEPT !.room.connection_status = StDisconnected("Closed")]
             ELSE closed
    ELSE s

\* Lines 97-198
RunHead(s, engine_state) ==
    LET s1 == ProcessUiNetworkCommand(s)
        s2 == IF Ended(s1) THEN s1 ELSE Bootstrap(s1)
        s3 == IF Ended(s2) THEN s2 ELSE SendStartHostedGame(s2)
        s4 == IF Ended(s3) THEN s3 ELSE ProbeServerCommand(s3)
        s5 == IF Ended(s4) THEN s4 ELSE ReturnWithoutConnection(s4, engine_state)
    IN  IF Ended(s5) THEN s5 ELSE PendingDisconnect(s5)

----------------------------------------------------------------------------
(* The tail of run: lines 417-481 *)

\* A slip in lines 417-419: the disconnected flag of the record is not read
Heartbeat_WhileDisconnected(s, engine_frame) ==
    IF engine_frame - s.hb > HEARTBEAT_FRAME_INTERVAL
    THEN Send([s EXCEPT !.hb = engine_frame], Reliable(ClientHeartbeat))
    ELSE s

\* Lines 417-427
Heartbeat(s, engine_frame) ==
    IF engine_frame - s.hb > HEARTBEAT_FRAME_INTERVAL /\ ~s.models[1].disconnected
    THEN Send([s EXCEPT !.hb = engine_frame], Reliable(ClientHeartbeat))
    ELSE s

\* A slip in line 438: the comparison is strict
WaitForPlayers_Strict(s, game_frame_number) ==
    IF s.game.lagging_players # <<>>
    THEN LET server_frame ==
                IF s.fu.updates = <<>> THEN 0
                ELSE s.fu.updates[Len(s.fu.updates)].frame_number
         IN  [s EXCEPT !.game.waiting_for_players =
                game_frame_number + INTERPOLATION_FRAME_DELAY > server_frame]
    ELSE s

\* Lines 429-439
WaitForPlayers(s, game_frame_number) ==
    IF s.game.lagging_players # <<>>
    THEN LET server_frame ==
                IF s.fu.updates = <<>> THEN 0
                ELSE s.fu.updates[Len(s.fu.updates)].frame_number
         IN  [s EXCEPT !.game.waiting_for_players =
                game_frame_number + INTERPOLATION_FRAME_DELAY >= server_frame]
    ELSE s

\* Lines 458-462
FramesAhead(game_frame_number, ack) ==
    saturating_sub(game_frame_number,
                   saturating_sub(ack.frame_number, INTERPOLATION_FRAME_DELAY))

\* A slip in lines 464-468: no hysteresis, the threshold alone decides
SteadyNetworkPause_NoHysteresis(waiting_network, frames_ahead) ==
    frames_ahead > PAUSE_FRAME_THRESHOLD

\* Lines 464-468
SteadyNetworkPause(waiting_network, frames_ahead) ==
    IF waiting_network THEN frames_ahead # 0
    ELSE IF frames_ahead > PAUSE_FRAME_THRESHOLD THEN TRUE
    ELSE waiting_network

\* A slip in lines 451-453: the flag is not cleared at INTERPOLATION_FRAME_DELAY
NetworkPause_NotCleared(s, time, engine_state) ==
    IF engine_state = "Playing" /\ s.game.is_playing
    THEN IF time.game_frame_abs < INTERPOLATION_FRAME_DELAY
         THEN Return([s EXCEPT !.game.waiting_network = TRUE])
         ELSE [s EXCEPT !.game.waiting_network =
                    SteadyNetworkPause(s.game.waiting_network,
                                       FramesAhead(time.game_frame, s.ack))]
    ELSE s

\* Lines 441-480
NetworkPause(s, time, engine_state) ==
    IF engine_state = "Playing" /\ s.game.is_playing
    THEN IF time.game_frame_abs < INTERPOLATION_FRAME_DELAY
         THEN Return([s EXCEPT !.game.waiting_network = TRUE])
         ELSE LET started ==
                    IF time.game_frame_abs = INTERPOLATION_FRAME_DELAY
                    THEN FALSE ELSE s.game.waiting_network
              IN  [s EXCEPT !.game.waiting_network =
                    SteadyNetworkPause(started, FramesAhead(time.game_frame, s.ack))]
    ELSE s

\* Lines 417-481
RunTail(s, time, engine_state) ==
    LET s1 == Heartbeat(s, time.engine_frame)
        s2 == WaitForPlayers(s1, time.game_frame)
    IN  NetworkPause(s2, time, engine_state)

----------------------------------------------------------------------------
(* The actions of a run *)

Commit(s) ==
    /\ multiplayer_room_state' = s.room
    /\ multiplayer_game_state' = s.game
    /\ last_acknowledged_update' = s.ack
    /\ framed_updates' = s.fu
    /\ spawn_actions' = s.sa
    /\ player_actions_updates' = s.pau
    /\ net_connection_models' = s.models
    /\ transport' = s.out
    /\ new_game_engine_state' = s.nges
    /\ server_command' = s.sc
    /\ ui_network_command' = s.ui
    /\ session_id_autoinc' = s.sid
    /\ last_heartbeat_frame' = s.hb

NoEvent == [event |-> [kind |-> "None"], outcome |-> "none", repeated |-> FALSE]

\* History: the run that has just ended changed waiting_network
NetworkPauseChanged ==
    [event |-> [kind |-> "NetworkPause"], outcome |-> "none", repeated |-> FALSE]

\* run up to the drain loop; an early return ends the run
TickBegin ==
    /\ pc = "idle"
    /\ transport = <<>>
    /\ LET s == RunHead(State, game_engine_state)
       IN  /\ Commit(s)
           /\ pc' = IF s.panicked THEN "panicked"
                    ELSE IF s.returned THEN "idle" ELSE "dispatch"
    /\ UNCHANGED <<connection_events, game_engine_state, game_time, last_event>>

\* one iteration of `for connection_event in connection_events.0.drain(..)`
DispatchEvent ==
    /\ pc = "dispatch"
    /\ connection_events # <<>>
    /\ \E within_grace \in BOOLEAN :
        LET e == Head(connection_events)
            s == ProcessEvent(State, e, game_time.game_frame, within_grace)
        IN  /\ Commit(s)
            /\ pc' = IF s.panicked THEN "panicked" ELSE "dispatch"
            /\ last_event' =
                [event |-> e, outcome |-> Outcome(State, e),
                 repeated |-> /\ last_event.event = e
                              /\ last_event.outcome = "handled"
                              /\ Outcome(State, e) = "handled"]
    /\ connection_events' = Tail(connection_events)
    /\ UNCHANGED <<game_engine_state, game_time>>

\* the rest of run once the queue is drained
TickEnd ==
    /\ pc = "dispatch"
    /\ connection_events = <<>>
    /\ Commit(RunTail(State, game_time, game_engine_state))
    /\ pc' = "idle"
    /\ last_event' = IF RunTail(State, game_time, game_engine_state).game.waiting_network
                         = multiplayer_game_state.waiting_network
                      THEN NoEvent
                      ELSE NetworkPauseChanged
    /\ UNCHANGED <<connection_events, game_engine_state, game_time>>

----------------------------------------------------------------------------
(* The environment between two runs *)

\* The transport hands the messages of the frame to the socket; it does so
\* every frame, before anything else of the next frame
TransportFlush ==
    /\ pc = "idle"
    /\ transport # <<>>
    /\ transport' = <<>>
    /\ UNCHANGED <<multiplayer_room_state, multiplayer_game_state,
                   last_acknowledged_update, framed_updates, spawn_actions,
                   player_actions_updates, net_connection_models, connection_events,
                   game_engine_state, new_game_engine_state, server_command,
                   ui_network_command, session_id_autoinc, last_heartbeat_frame,
                   game_time, pc, last_event>>

\* The transport delivers an event of the set Events before a run
Deliver(Events) ==
    /\ pc = "idle"
    /\ transport = <<>>
    /\ Len(connection_events) < MaxQueue
    /\ \E e \in Events : connection_events' = Append(connection_events, e)
    /\ UNCHANGED <<multiplayer_room_state, multiplayer_game_state,
                   last_acknowledged_update, framed_updates, spawn_actions,
                   player_actions_updates, net_connection_models, transport,
                   game_engine_state, new_game_engine_state, server_command,
                   ui_network_command, session_id_autoinc, last_heartbeat_frame,
                   game_time, pc, last_event>>

\* The frame counters advance to one of the readings of Times
AdvanceTime(Times) ==
    /\ pc = "idle"
    /\ transport = <<>>
    /\ \E t \in Times :
        /\ t.engine_frame > game_time.engine_frame
        /\ t.game_frame >= game_time.game_frame
        /\ t.game_frame_abs >= game_time.game_frame_abs
        /\ game_time' = t
    /\ UNCHANGED <<multiplayer_room_state, multiplayer_game_state,
                   last_acknowledged_update, framed_updates, spawn_actions,
                   player_actions_updates, net_connection_models, connection_events,
                   transport, game_engine_state, new_game_engine_state,
                   server_command, ui_network_command, session_id_autoinc,
                   last_heartbeat_frame, pc, last_event>>

\* The engine takes up the state this system asked for
EngineTransition ==
    /\ pc = "idle"
    /\ transport = <<>>
    /\ game_engine_state # new_game_engine_state
    /\ game_engine_state' = new_game_engine_state
    /\ UNCHANGED <<multiplayer_room_state, multiplayer_game_state,
                   last_acknowledged_update, framed_updates, spawn_actions,
                   player_actions_updates, net_connection_models, connection_events,
                   transport, new_game_engine_state, server_command,
                   ui_network_command, session_id_autoinc, last_heartbeat_frame,
                   game_time, pc, last_event>>

----------------------------------------------------------------------------
(* Values of the model *)

SessionId == 0
StaleSessionId == 1
LocalConnectionId == 2
OtherConnectionId == 1

Player(conn_id, entity_net_id) ==
    [connection_id |-> conn_id, entity_net_id |-> entity_net_id]

Roster == <<Player(OtherConnectionId, 0), Player(LocalConnectionId, 0)>>

EntityNetIds == <<101, 102>>

Action(entity_net_id, data) == [entity_net_id |-> entity_net_id, data |-> data]

\* ServerWorldUpdate
ServerWorldUpdate(frame_number, spawn, walk, cast, look) ==
    [frame_number |-> frame_number,
     spawn_actions |-> spawn,
     player_walk_actions_updates |-> walk,
     player_cast_actions_updates |-> cast,
     player_look_actions_updates |-> look]

BatchEmpty == <<>>

\* frames 10, 11
BatchSorted ==
    <<ServerWorldUpdate(10, <<1>>, <<Action(101, 1), Action(102, 2)>>,
                        <<Action(102, 3)>>, <<Action(102, 4), Action(101, 5)>>),
      ServerWorldUpdate(11, <<2>>, <<Action(102, 6)>>, <<>>, <<>>)>>

\* frames 12, 11: not sorted on arrival
BatchUnsorted ==
    <<ServerWorldUpdate(12, <<3>>, <<Action(101, 7)>>, <<>>, <<>>),
      ServerWorldUpdate(11, <<4>>, <<Action(102, 8)>>, <<Action(101, 9)>>, <<>>)>>

\* frames 9, 11: starts before INTERPOLATION_FRAME_DELAY, not consecutive
BatchGap ==
    <<ServerWorldUpdate(9, <<5>>, <<Action(102, 10)>>, <<>>, <<>>),
      ServerWorldUpdate(11, <<6>>, <<Action(102, 11), Action(101, 12)>>, <<>>, <<>>)>>

Batches == {BatchEmpty, BatchSorted, BatchUnsorted, BatchGap}

Time(engine_frame, game_frame, game_frame_abs) ==
    [engine_frame |-> engine_frame, game_frame |-> game_frame,
     game_frame_abs |-> game_frame_abs]

InitRoom(status, is_host, has_sent_join_message) ==
    [is_active |-> TRUE,
     is_host |-> is_host,
     nickname |-> "Al",
     player_net_id |-> 0,
     pending_disconnecting |-> FALSE,
     has_sent_join_message |-> has_sent_join_message,
     has_sent_start_message |-> FALSE,
     has_started |-> FALSE,
     connection_status |-> status]

InitGame(players) ==
    [is_playing |-> FALSE,
     players |-> players,
     waiting_for_players |-> FALSE,
     waiting_for_players_pause_id |-> 0,
     lagging_players |-> <<>>,
     waiting_network |-> FALSE,
     is_disconnected |-> FALSE]

\* A joined client in the lobby: connection made, handshake and roster received
InitLobby ==
    /\ multiplayer_room_state = InitRoom(StConnected(LocalConnectionId), FALSE, TRUE)
    /\ multiplayer_game_state = InitGame(Roster)
    /\ last_acknowledged_update = [id |-> 0, frame_number |-> 0]
    /\ framed_updates = EmptyFramedUpdates
    /\ spawn_actions = EmptyFramedUpdates
    /\ player_actions_updates = EmptyFramedUpdates
    /\ net_connection_models = <<NewNetConnectionModel(SessionId)>>
    /\ connection_events = <<>>
    /\ transport = <<>>
    /\ game_engine_state = "Menu"
    /\ new_game_engine_state = "Menu"
    /\ server_command = [started |-> FALSE, exit_code |-> Running]
    /\ ui_network_command = NoCommand
    /\ session_id_autoinc = SessionId + 1
    /\ last_heartbeat_frame = 0
    /\ game_time = Time(0, 0, 0)
    /\ pc = "idle"
    /\ last_event = NoEvent

----------------------------------------------------------------------------
(* SpecWorld: world updates and the start of the game *)

\* The batch the server sends under an id: frames 12, 11 under odd ids,
\* frames 10, 11 under even ones
WorldBatch(id) == IF id % 2 = 1 THEN BatchUnsorted ELSE BatchSorted

WorldEvents ==
    {Message(SessionId, UpdateWorld(id, WorldBatch(id))) : id \in 0..MaxUpdateId}
    \cup {Message(SessionId, UpdateWorld(MaxUpdateId, BatchEmpty))}
    \cup {Message(SessionId, StartGame(EntityNetIds))}

WorldTimes == {Time(1, 0, 0), Time(2, 13, 23)}

DeliverWorld == Deliver(WorldEvents)

AdvanceWorldTime == AdvanceTime(WorldTimes)

NextWorld ==
    \/ TickBegin
    \/ DispatchEvent
    \/ TickEnd
    \/ TransportFlush
    \/ DeliverWorld
    \/ AdvanceWorldTime
    \/ EngineTransition

SpecWorld == InitLobby /\ [][NextWorld]_vars

----------------------------------------------------------------------------
(* Spec: the lobby, from the construction of the system *)

RosterWithoutUs == <<Player(OtherConnectionId, 0), Player(3, 0)>>

\* The resources as the client creates them: no room, nothing received
Init ==
    /\ multiplayer_room_state =
        [InitRoom(StDisconnected("None"), FALSE, FALSE) EXCEPT !.is_active = FALSE]
    /\ multiplayer_game_state = InitGame(<<>>)
    /\ last_acknowledged_update = [id |-> 0, frame_number |-> 0]
    /\ framed_updates = EmptyFramedUpdates
    /\ spawn_actions = EmptyFramedUpdates
    /\ player_actions_updates = EmptyFramedUpdates
    /\ net_connection_models = <<>>
    /\ connection_events = <<>>
    /\ transport = <<>>
    /\ game_engine_state = "Menu"
    /\ new_game_engine_state = "Menu"
    /\ server_command = [started |-> FALSE, exit_code |-> Running]
    /\ ui_network_command = NoCommand
    /\ session_id_autoinc = SessionId
    /\ last_heartbeat_frame = 0
    /\ game_time = Time(0, 0, 0)
    /\ pc = "idle"
    /\ last_event = NoEvent

\* The menu opens a room to join a server: the status becomes Connecting
UiJoinRoom ==
    /\ pc = "idle"
    /\ ~multiplayer_room_state.is_active
    /\ multiplayer_room_state' =
        [multiplayer_room_state EXCEPT !.is_active = TRUE, !.is_host = FALSE,
                                       !.connection_status = StConnecting]
    /\ UNCHANGED <<multiplayer_game_state, last_acknowledged_update, framed_updates,
                   spawn_actions, player_actions_updates, net_connection_models,
                   connection_events, transport, game_engine_state,
                   new_game_engine_state, server_command, ui_network_command,
                   session_id_autoinc, last_heartbeat_frame, game_time, pc, last_event>>

\* The menu opens a room to host: the server process is started
UiHostRoom ==
    /\ pc = "idle"
    /\ ~multiplayer_room_state.is_active
    /\ multiplayer_room_state' =
        [multiplayer_room_state EXCEPT !.is_active = TRUE, !.is_host = TRUE,
                                       !.connection_status = StConnecting]
    /\ server_command' = [server_command EXCEPT !.started = TRUE]
    /\ UNCHANGED <<multiplayer_game_state, last_acknowledged_update, framed_updates,
                   spawn_actions, player_actions_updates, net_connection_models,
                   connection_events, transport, game_engine_state,
                   new_game_engine_state, ui_network_command,
                   session_id_autoinc, last_heartbeat_frame, game_time, pc, last_event>>

\* The hosted server connects to its client: the connection record of a host
\* is made outside this system (comment of lines 261-262)
ServerConnects ==
    /\ pc = "idle"
    /\ multiplayer_room_state.is_active
    /\ multiplayer_room_state.is_host
    /\ net_connection_models = <<>>
    /\ net_connection_models' = <<NewNetConnectionModel(SessionId)>>
    /\ UNCHANGED <<multiplayer_room_state, multiplayer_game_state,
                   last_acknowledged_update, framed_updates, spawn_actions,
                   player_actions_updates, connection_events, transport,
                   game_engine_state, new_game_engine_state, server_command,
                   ui_network_command, session_id_autoinc, last_heartbeat_frame,
                   game_time, pc, last_event>>

LobbyEvents ==
    {Message(SessionId, payload) :
        payload \in {Handshake(LocalConnectionId, FALSE),
                     Handshake(LocalConnectionId, TRUE),
                     UpdateRoomPlayers(Roster),
                     UpdateRoomPlayers(RosterWithoutUs),
                     StartGame(EntityNetIds),
                     StartGame(<<101>>)}}

DeliverLobby == Deliver(LobbyEvents)

Next ==
    \/ TickBegin
    \/ DispatchEvent
    \/ TickEnd
    \/ TransportFlush
    \/ DeliverLobby
    \/ EngineTransition
    \/ UiJoinRoom
    \/ UiHostRoom
    \/ ServerConnects

Spec == Init /\ [][Next]_vars

----------------------------------------------------------------------------
(* The game in progress *)

\* A walk action of this client as the input system buffers it
WalkUpdate(client_action_id) ==
    Action(102, [client_action_id |-> client_action_id])

\* The resources right after StartGame(EntityNetIds) and the engine's
\* transition to Playing, with this client's buffered actions and the pause
\* bookkeeping as given
InitPlaying(buffer, game) ==
    /\ multiplayer_room_state =
        [InitRoom(StConnected(LocalConnectionId), FALSE, TRUE) EXCEPT !.player_net_id = 102]
    /\ multiplayer_game_state = game
    /\ last_acknowledged_update = [id |-> 0, frame_number |-> 0]
    /\ framed_updates = EmptyFramedUpdates
    /\ spawn_actions = EmptyFramedUpdates
    /\ player_actions_updates = buffer
    /\ net_connection_models = <<NewNetConnectionModel(SessionId)>>
    /\ connection_events = <<>>
    /\ transport = <<>>
    /\ game_engine_state = "Playing"
    /\ new_game_engine_state = "Playing"
    /\ server_command = [started |-> FALSE, exit_code |-> Running]
    /\ ui_network_command = NoCommand
    /\ session_id_autoinc = SessionId + 1
    /\ last_heartbeat_frame = 0
    /\ game_time = Time(0, 0, 0)
    /\ pc = "idle"
    /\ last_event = NoEvent

PlayingGame ==
    [InitGame(AssignEntityNetIds(Roster, EntityNetIds)) EXCEPT !.is_playing = TRUE]

----------------------------------------------------------------------------
(* SpecPause: the server pauses and unpauses the game for lagging players *)

InitPause == InitPlaying(EmptyFramedUpdates, PlayingGame)

PauseEvents ==
    {Message(SessionId, PauseWaitingForPlayers(id, <<101>>)) : id \in 1..MaxPauseId}
    \cup {Message(SessionId, UnpauseWaitingForPlayers(id)) : id \in 0..MaxPauseId}

DeliverPause == Deliver(PauseEvents)

NextPause ==
    \/ TickBegin
    \/ DispatchEvent
    \/ TickEnd
    \/ DeliverPause

SpecPause == InitPause /\ [][NextPause]_vars

----------------------------------------------------------------------------
(* SpecDiscard: the server rejects walk actions of this client *)

ActionIds == 1..MaxActionId

\* What a frame of the buffer holds: up to two walk actions
WalkLists ==
    {<<>>}
    \cup {<<WalkUpdate(a)>> : a \in ActionIds}
    \cup {<<WalkUpdate(a), WalkUpdate(b)>> : a \in ActionIds, b \in ActionIds}

\* The buffers of frames 0..MaxBufferedFrame
PlayerBuffers ==
    {[oldest_updated_frame |-> oldest,
      updates |-> [i \in 1..(MaxBufferedFrame + 1) |->
                    [frame_number |-> i - 1, walk_action_updates |-> walks[i]]]] :
        oldest \in 0..MaxBufferedFrame,
        walks \in [1..(MaxBufferedFrame + 1) -> WalkLists]}

InitDiscard == \E buffer \in PlayerBuffers : InitPlaying(buffer, PlayingGame)

DiscardEvents ==
    {Message(SessionId, DiscardWalkActions(<<a>>)) : a \in ActionIds}
    \cup {Message(SessionId, DiscardWalkActions(<<a, b>>)) : a \in ActionIds, b \in ActionIds}

DeliverDiscard == connection_events = <<>> /\ Deliver(DiscardEvents)

NextDiscard ==
    \/ TickBegin
    \/ DispatchEvent
    \/ TickEnd
    \/ DeliverDiscard

SpecDiscard == InitDiscard /\ [][NextDiscard]_vars

----------------------------------------------------------------------------
(* SpecSession: messages of another session arrive in the lobby and in the game *)

\* One message of every payload type, each of which its arm would act on
Payloads ==
    {Handshake(3, TRUE),
     UpdateRoomPlayers(RosterWithoutUs),
     StartGame(EntityNetIds),
     UpdateWorld(1, BatchSorted),
     DiscardWalkActions(<<1>>),
     PauseWaitingForPlayers(1, <<101>>),
     UnpauseWaitingForPlayers(MaxPauseId),
     ServerDisconnect("Kicked"),
     ServerHeartbeat}

SessionEvents ==
    {Message(StaleSessionId, payload) : payload \in Payloads}
    \cup {Message(SessionId, StartGame(EntityNetIds)),
          Message(SessionId, PauseWaitingForPlayers(1, <<101>>))}

\* In the lobby, or in the game with a walk action buffered
InitSession ==
    \/ InitLobby
    \/ InitPlaying([oldest_updated_frame |-> 0,
                    updates |-> <<[frame_number |-> 0,
                                   walk_action_updates |-> <<WalkUpdate(1)>>]>>],
                   PlayingGame)

DeliverSession == Deliver(SessionEvents)

NextSession ==
    \/ TickBegin
    \/ DispatchEvent
    \/ TickEnd
    \/ DeliverSession
    \/ EngineTransition

SpecSession == InitSession /\ [][NextSession]_vars

----------------------------------------------------------------------------
(* SpecPacing: the client runs ahead of the server and waits for it *)

\* The world update the server sends under an id: one frame, 15 frames
\* further with every id (frames 25, 40, ...)
PacingBatch(id) ==
    <<ServerWorldUpdate(INTERPOLATION_FRAME_DELAY + 15 * id, <<>>,
                        <<Action(101, id)>>, <<>>, <<>>)>>

PacingEvents ==
    {Message(SessionId, UpdateWorld(id, PacingBatch(id))) : id \in 1..MaxUpdateId}
    \cup {Message(SessionId, StartGame(EntityNetIds))}

\* Readings of the frame counters: the first frames of the game, during
\* which the game frame stands still, and later ones
PacingTimes ==
    {Time(1, 0, 5), Time(2, 0, 10), Time(3, 15, 25), Time(4, 25, 35),
     Time(5, 30, 40), Time(6, 35, 45)}

DeliverPacing == Deliver(PacingEvents)

AdvancePacingTime == AdvanceTime(PacingTimes)

NextPacing ==
    \/ TickBegin
    \/ DispatchEvent
    \/ TickEnd
    \/ TransportFlush
    \/ DeliverPacing
    \/ AdvancePacingTime
    \/ EngineTransition

SpecPacing == InitLobby /\ [][NextPacing]_vars

----------------------------------------------------------------------------
(* SpecMerge: world updates are merged into buffers the simulation has trimmed *)

\* frames 13, 14
BatchLate ==
    <<ServerWorldUpdate(13, <<7>>, <<Action(102, 13), Action(101, 14)>>, <<>>, <<>>),
      ServerWorldUpdate(14, <<8>>, <<Action(101, 15)>>, <<Action(102, 16)>>,
                        <<Action(102, 17)>>)>>

MergeBatches == {BatchGap, BatchSorted, BatchUnsorted, BatchLate}

MergeEvents ==
    {Message(SessionId, UpdateWorld(id, batch)) :
        id \in 1..MaxUpdateId, batch \in MergeBatches}

\* A game in progress whose simulation has dropped the frames before `front`
\* from the buffers
InitMergeAt(front) ==
    /\ multiplayer_room_state =
        [InitRoom(StConnected(LocalConnectionId), FALSE, TRUE) EXCEPT !.player_net_id = 102]
    /\ multiplayer_game_state = PlayingGame
    /\ last_acknowledged_update = [id |-> 0, frame_number |-> 0]
    /\ framed_updates =
        [oldest_updated_frame |-> front,
         updates |-> <<NewReceivedServerWorldUpdate(front)>>]
    /\ spawn_actions =
        [oldest_updated_frame |-> front, updates |-> <<NewSpawnActions(front)>>]
    /\ player_actions_updates =
        [oldest_updated_frame |-> front, updates |-> <<NewPlayerActionUpdates(front)>>]
    /\ net_connection_models = <<NewNetConnectionModel(SessionId)>>
    /\ connection_events = <<>>
    /\ transport = <<>>
    /\ game_engine_state = "Playing"
    /\ new_game_engine_state = "Playing"
    /\ server_command = [started |-> FALSE, exit_code |-> Running]
    /\ ui_network_command = NoCommand
    /\ session_id_autoinc = SessionId + 1
    /\ last_heartbeat_frame = 0
    /\ game_time = Time(0, front, INTERPOLATION_FRAME_DELAY + front)
    /\ pc = "idle"
    /\ last_event = NoEvent

InitMerge == \E front \in 0..MaxFront : InitMergeAt(front)

DeliverMerge == Deliver(MergeEvents)

NextMerge ==
    \/ TickBegin
    \/ DispatchEvent
    \/ TickEnd
    \/ TransportFlush
    \/ DeliverMerge

SpecMerge == InitMerge /\ [][NextMerge]_vars

----------------------------------------------------------------------------
(* SpecReplay: lobby messages come again once the game has started *)

\* The entity ids of a second StartGame: the players the other way round
SwappedEntityNetIds == <<102, 101>>

ReplayEvents ==
    {Message(SessionId, payload) :
        payload \in {Handshake(3, TRUE),
                     UpdateRoomPlayers(RosterWithoutUs),
                     StartGame(EntityNetIds),
                     StartGame(SwappedEntityNetIds),
                     UpdateWorld(1, BatchSorted)}}

DeliverReplay == Deliver(ReplayEvents)

NextReplay ==
    \/ TickBegin
    \/ DispatchEvent
    \/ TickEnd
    \/ TransportFlush
    \/ DeliverReplay
    \/ EngineTransition

SpecReplay == InitLobby /\ [][NextReplay]_vars

----------------------------------------------------------------------------
(* SpecConnection: rooms are opened and left, connections made and closed *)

\* The menu leaves the room
UiLeaveRoom ==
    /\ pc = "idle"
    /\ multiplayer_room_state.is_active
    /\ multiplayer_room_state' = [multiplayer_room_state EXCEPT !.is_active = FALSE]
    /\ UNCHANGED <<multiplayer_game_state, last_acknowledged_update, framed_updates,
                   spawn_actions, player_actions_updates, net_connection_models,
                   connection_events, transport, game_engine_state,
                   new_game_engine_state, server_command, ui_network_command,
                   session_id_autoinc, last_heartbeat_frame, game_time, pc, last_event>>

\* The menu asks for the connection to be closed
UiDisconnect ==
    /\ pc = "idle"
    /\ multiplayer_room_state.is_active
    /\ ~multiplayer_room_state.pending_disconnecting
    /\ multiplayer_room_state' =
        [multiplayer_room_state EXCEPT !.pending_disconnecting = TRUE]
    /\ UNCHANGED <<multiplayer_game_state, last_acknowledged_update, framed_updates,
                   spawn_actions, player_actions_updates, net_connection_models,
                   connection_events, transport, game_engine_state,
                   new_game_engine_state, server_command, ui_network_command,
                   session_id_autoinc, last_heartbeat_frame, game_time, pc, last_event>>

\* The host shuts its server down: the status is Disconnecting until the
\* server process has exited
UiShutdownServer ==
    /\ pc = "idle"
    /\ multiplayer_room_state.is_active
    /\ multiplayer_room_state.is_host
    /\ is_connected(multiplayer_room_state.connection_status)
    /\ multiplayer_room_state' =
        [multiplayer_room_state EXCEPT !.connection_status = StDisconnecting]
    /\ UNCHANGED <<multiplayer_game_state, last_acknowledged_update, framed_updates,
                   spawn_actions, player_actions_updates, net_connection_models,
                   connection_events, transport, game_engine_state,
                   new_game_engine_state, server_command, ui_network_command,
                   session_id_autoinc, last_heartbeat_frame, game_time, pc, last_event>>

\* The server process of the host exits, with code 0 or 1
ServerExits ==
    /\ pc = "idle"
    /\ server_command.started
    /\ server_command.exit_code = Running
    /\ \E code \in {0, 1} : server_command' = [server_command EXCEPT !.exit_code = code]
    /\ UNCHANGED <<multiplayer_room_state, multiplayer_game_state,
                   last_acknowledged_update, framed_updates, spawn_actions,
                   player_actions_updates, net_connection_models, connection_events,
                   transport, game_engine_state, new_game_engine_state,
                   ui_network_command, session_id_autoinc, last_heartbeat_frame,
                   game_time, pc, last_event>>

ConnectionEvents ==
    {NetDisconnected}
    \cup {Message(SessionId, payload) :
            payload \in {Handshake(LocalConnectionId, FALSE),
                         Handshake(LocalConnectionId, TRUE),
                         UpdateRoomPlayers(Roster),
                         UpdateWorld(1, BatchSorted),
                         ServerDisconnect("Kicked")}}

\* Events come over a connection, one between two runs
DeliverConnection ==
    /\ net_connection_models # <<>>
    /\ connection_events = <<>>
    /\ Deliver(ConnectionEvents)

\* A room is opened to join, MaxSessions times at most
OpenRoomToJoin == session_id_autoinc < MaxSessions /\ UiJoinRoom

\* A room is opened to host, while session ids are left
OpenRoomToHost == session_id_autoinc < MaxSessions /\ UiHostRoom

NextConnection ==
    \/ TickBegin
    \/ DispatchEvent
    \/ TickEnd
    \/ TransportFlush
    \/ DeliverConnection
    \/ OpenRoomToJoin
    \/ OpenRoomToHost
    \/ ServerConnects
    \/ UiLeaveRoom
    \/ UiDisconnect
    \/ UiShutdownServer
    \/ ServerExits

SpecConnection == Init /\ [][NextConnection]_vars

----------------------------------------------------------------------------
(* SpecClock: the tail of the run as the frame counters advance in a game *)

\* Readings of the frame counters (engine frame, game frame, absolute game
\* frame): the game frame is never above the absolute one
ClockTimes ==
    {Time(5, 0, 5), Time(10, 0, 10), Time(10, 10, 10), Time(11, 1, 11),
     Time(21, 5, 21), Time(22, 22, 22), Time(40, 30, 40)}

ClockEvents ==
    {Message(SessionId, payload) :
        payload \in {UpdateWorld(1, PacingBatch(1)),
                     UpdateWorld(2, PacingBatch(2)),
                     PauseWaitingForPlayers(1, <<101>>),
                     UnpauseWaitingForPlayers(1)}}

InitClock == InitPlaying(EmptyFramedUpdates, PlayingGame)

\* Events come one between two runs
DeliverClock == connection_events = <<>> /\ Deliver(ClockEvents)

AdvanceClockTime == AdvanceTime(ClockTimes)

NextClock ==
    \/ TickBegin
    \/ DispatchEvent
    \/ TickEnd
    \/ TransportFlush
    \/ DeliverClock
    \/ AdvanceClockTime
    \/ UiDisconnect

SpecClock == InitClock /\ [][NextClock]_vars

----------------------------------------------------------------------------
(* Properties *)

\* The drain loop is about to hand a message of this type to its arm
Dispatching(type) ==
    /\ pc = "dispatch"
    /\ connection_events # <<>>
    /\ IsPayload(Head(connection_events), type)
    /\ Outcome(State, Head(connection_events)) = "handled"

\* The drain loop has just handed a message of this type to its arm
Dispatched(type) ==
    /\ last_event.outcome = "handled"
    /\ IsPayload(last_event.event, type)

FrameNumbers(updates) == {updates[i].frame_number : i \in 1..Len(updates)}

GreatestFrame(updates) ==
    CHOOSE f \in FrameNumbers(updates) : \A g \in FrameNumbers(updates) : g <= f

\* C1: a dispatched UpdateWorld{id, updates} changes the AckCursor and the
\* frame buffers only if id > last_ack_id, and then last_ack_id becomes id and
\* last_ack_frame the maximum of its previous value and the greatest frame of
\* the batch; in both cases exactly one unreliable AcknowledgeWorldUpdate(id)
\* is sent.
C1_UpdateWorldAbsorbedIffNewer ==
    [][Dispatching("UpdateWorld") =>
        LET payload == Head(connection_events).payload
        IN  /\ transport' = Append(transport, Unreliable(AcknowledgeWorldUpdate(payload.id)))
            /\ IF payload.id > last_acknowledged_update.id
               THEN /\ last_acknowledged_update'.id = payload.id
                    /\ last_acknowledged_update'.frame_number =
                         IF payload.updates = <<>>
                         THEN last_acknowledged_update.frame_number
                         ELSE Max(last_acknowledged_update.frame_number,
                                  GreatestFrame(payload.updates))
               ELSE UNCHANGED <<last_acknowledged_update, framed_updates, spawn_actions>>
    ]_vars

\* C1 witness: a batch with a newer id has been absorbed and acknowledged,
\* and the cursor stands at its id and its greatest frame
C1_Witness ==
    /\ Dispatched("UpdateWorld")
    /\ last_event.event.payload.id = last_acknowledged_update.id
    /\ last_event.event.payload.updates = BatchUnsorted
    /\ last_acknowledged_update.frame_number = 12
    /\ transport # <<>>
    /\ transport[Len(transport)] = Unreliable(AcknowledgeWorldUpdate(last_acknowledged_update.id))
    /\ framed_updates.updates # <<>>

\* C2: applying the same UpdateWorld message a second time, in the same run
\* or in a later one (at a later frame), leaves both frame buffers and their
\* oldest_updated_frame markers as the first application left them.
C2_UpdateWorldIdempotent ==
    \A e \in WorldEvents : \A t \in WorldTimes \cup {game_time} :
        (/\ net_connection_models # <<>>
         /\ IsPayload(e, "UpdateWorld")
         /\ Outcome(State, e) = "handled"
         /\ t.game_frame >= game_time.game_frame) =>
            LET once == ProcessEvent(State, e, game_time.game_frame, FALSE)
                twice == ProcessEvent(once, e, t.game_frame, FALSE)
            IN  ~once.panicked => (twice.fu = once.fu /\ twice.sa = once.sa)

\* C2 witness: the same UpdateWorld message was dispatched twice in a row and
\* its batch is in the buffers
C2_Witness ==
    /\ Dispatched("UpdateWorld")
    /\ last_event.repeated
    /\ last_event.event.payload.id = last_acknowledged_update.id
    /\ last_event.event.payload.id > 0
    /\ last_event.event.payload.updates # <<>>
    /\ framed_updates.updates # <<>>
    /\ Len(transport) >= 2

\* C3 as stated: last_ack_id and last_ack_frame never decrease, whatever is
\* dispatched
C3_CursorNeverDecreases ==
    [][/\ last_acknowledged_update'.id >= last_acknowledged_update.id
       /\ last_acknowledged_update'.frame_number >= last_acknowledged_update.frame_number
    ]_vars

\* C3 amended: last_ack_id and last_ack_frame never decrease except when a
\* StartGame message is dispatched, which sets both to 0; every dispatched
\* UpdateWorld{id} leaves last_ack_id at the maximum of its previous value and
\* id, and nothing else changes it, so it is the maximum of the ids dispatched
\* since the last StartGame.
C3_CursorMonotoneBetweenStarts ==
    [][IF Dispatching("StartGame")
       THEN last_acknowledged_update' = [id |-> 0, frame_number |-> 0]
       ELSE /\ last_acknowledged_update'.frame_number >= last_acknowledged_update.frame_number
            /\ last_acknowledged_update'.id =
                 IF Dispatching("UpdateWorld")
                 THEN Max(last_acknowledged_update.id, Head(connection_events).payload.id)
                 ELSE last_acknowledged_update.id
    ]_vars

\* C3 witness: a later batch with lower frames was absorbed and the cursor's
\* frame stayed where the earlier batch had put it
C3_Witness ==
    /\ Dispatched("UpdateWorld")
    /\ last_event.event.payload.id = last_acknowledged_update.id
    /\ last_event.event.payload.updates = BatchSorted
    /\ last_acknowledged_update.id = 2
    /\ last_acknowledged_update.frame_number = 12

\* The connection id of this client is in the roster
InRoster ==
    /\ is_connected(multiplayer_room_state.connection_status)
    /\ \E i \in 1..Len(multiplayer_game_state.players) :
        multiplayer_game_state.players[i].connection_id =
            multiplayer_room_state.connection_status.val

\* C8: a StartGame(entity_ids) dispatched while not playing, with the local
\* connection id in the roster, gives players[i] the entity id entity_ids[i],
\* makes player_net_id the entity id at the position of the local connection
\* id, resets the AckCursor to {0,0}, sets is_playing and requests the engine
\* state Playing.  Line 305 indexes entity_net_ids by the roster position
\* without a length check: with roster [{conn 1}, {conn 2}], local connection
\* id 2 and StartGame([101]) the run panics at position 2, is_playing stays
\* false and Playing is not requested.
C8_StartGameAlwaysStarts ==
    [][(Dispatching("StartGame") /\ InRoster) =>
        LET entity_ids == Head(connection_events).payload.entity_net_ids
            players == multiplayer_game_state.players
        IN  /\ multiplayer_game_state'.is_playing
            /\ new_game_engine_state' = "Playing"
            /\ last_acknowledged_update' = [id |-> 0, frame_number |-> 0]
            /\ Len(multiplayer_game_state'.players) = Len(players)
            /\ \A i \in 1..Len(players) :
                multiplayer_game_state'.players[i].entity_net_id = entity_ids[i]
            /\ \E i \in 1..Len(players) :
                /\ players[i].connection_id = multiplayer_room_state.connection_status.val
                /\ multiplayer_room_state'.player_net_id = entity_ids[i]
    ]_vars

\* C9: a StartGame dispatched when no roster entry has the local connection
\* id ends in a fatal failure: is_playing is not set and the engine state
\* Playing is not requested.
C9_StartGameWithoutUsIsFatal ==
    [][(Dispatching("StartGame") /\ ~InRoster) =>
        /\ pc' = "panicked"
        /\ ~multiplayer_game_state'.is_playing
        /\ new_game_engine_state' = new_game_engine_state
    ]_vars

\* C9 witness: connected, the roster holds other clients only, StartGame was
\* dispatched and the run has panicked
C9_Witness ==
    /\ pc = "panicked"
    /\ Dispatched("StartGame")
    /\ is_connected(multiplayer_room_state.connection_status)
    /\ Len(multiplayer_game_state.players) = 2
    /\ \A i \in 1..2 : multiplayer_game_state.players[i].connection_id # LocalConnectionId
    /\ ~multiplayer_game_state.is_playing
    /\ new_game_engine_state = "Menu"

\* C10: a dispatched Handshake{net_id, is_host} makes the status
\* Connected(net_id) and the room's is_host flag is_host; it sends a reliable
\* JoinRoom if and only if has_sent_join_message was false, and sends nothing
\* else.
C10_HandshakeConnectsAndJoinsOnce ==
    [][Dispatching("Handshake") =>
        LET payload == Head(connection_events).payload
        IN  /\ multiplayer_room_state'.connection_status = StConnected(payload.net_id)
            /\ multiplayer_room_state'.is_host = payload.is_host
            /\ multiplayer_room_state'.has_sent_join_message
            /\ transport' =
                IF multiplayer_room_state.has_sent_join_message
                THEN transport
                ELSE Append(transport, Reliable(JoinRoom(multiplayer_room_state.nickname)))
    ]_vars

\* C10 witness: a joiner whose JoinRoom went out in an earlier run has taken
\* Handshake{2, false}: it is Connected(2) and has sent nothing in this run
C10_Witness ==
    /\ Dispatched("Handshake")
    /\ ~last_event.event.payload.is_host
    /\ multiplayer_room_state.connection_status = StConnected(LocalConnectionId)
    /\ ~multiplayer_room_state.is_host
    /\ multiplayer_room_state.has_sent_join_message
    /\ transport = <<>>

\* C7: PauseWaitingForPlayers{id, players} is applied only if id is above the
\* pause id and UnpauseWaitingForPlayers(id) only if id is at least the pause
\* id; a stale message changes nothing of the pause bookkeeping; an applied
\* Pause records the players and the id and leaves waiting_for_players as it
\* was; an applied Unpause clears the flag and the players and records the id.
C7_PauseAppliedOnlyIfFresh ==
    [][/\ Dispatching("PauseWaitingForPlayers") =>
            LET payload == Head(connection_events).payload
                game == multiplayer_game_state
            IN  IF payload.id > game.waiting_for_players_pause_id
                THEN multiplayer_game_state' =
                        [game EXCEPT !.lagging_players = payload.players,
                                     !.waiting_for_players_pause_id = payload.id]
                ELSE multiplayer_game_state' = game
       /\ Dispatching("UnpauseWaitingForPlayers") =>
            LET payload == Head(connection_events).payload
                game == multiplayer_game_state
            IN  IF payload.id >= game.waiting_for_players_pause_id
                THEN multiplayer_game_state' =
                        [game EXCEPT !.lagging_players = <<>>,
                                     !.waiting_for_players = FALSE,
                                     !.waiting_for_players_pause_id = payload.id]
                ELSE multiplayer_game_state' = game
    ]_vars

\* C7 witness: Pause{id=3, [101]} was applied and a run has set
\* waiting_for_players; the Unpause(2) just dispatched has left the players,
\* the flag and the pause id alone
C7_Witness ==
    /\ Dispatched("UnpauseWaitingForPlayers")
    /\ last_event.event.payload.id = 2
    /\ multiplayer_game_state.waiting_for_players_pause_id = 3
    /\ multiplayer_game_state.lagging_players = <<101>>
    /\ multiplayer_game_state.waiting_for_players

\* How many walk actions of the frame carry the id
CountInFrame(walk_action_updates, id) ==
    Cardinality({k \in 1..Len(walk_action_updates) :
                    walk_action_updates[k].data.client_action_id = id})

\* How many buffered walk actions carry the id
CountBuffered(updates, id) ==
    Cardinality(UNION {
        {<<i, k>> : k \in {n \in 1..Len(updates[i].walk_action_updates) :
                    updates[i].walk_action_updates[n].data.client_action_id = id}} :
        i \in 1..Len(updates)})

\* How many entries of the list are the id
CountEntries(ids, id) == Cardinality({k \in 1..Len(ids) : ids[k] = id})

\* The frames whose walk actions differ between the two buffers
TouchedFrames(before, after) ==
    {before[i].frame_number : i \in {j \in 1..Len(before) : after[j] # before[j]}}

\* The walk actions of the frame without those whose id is in ids
WithoutIds(walk_action_updates, ids) ==
    LET stays(a) == \A k \in 1..Len(ids) : ids[k] # a.data.client_action_id
    IN  SelectSeq(walk_action_updates, stays)

\* C6 as stated: DiscardWalkActions(ids) removes every buffered walk action
\* whose client_action_id is in ids, in every frame, and no other, and
\* oldest_updated_frame becomes the earliest frame an action was removed from.
\* Two buffered actions with one id and ids naming it once refute it.
C6_DiscardRemovesEveryMatch ==
    [][Dispatching("DiscardWalkActions") =>
        LET ids == Head(connection_events).payload.ids
            before == player_actions_updates.updates
            after == player_actions_updates'.updates
        IN  /\ Len(after) = Len(before)
            /\ \A i \in 1..Len(before) :
                /\ after[i].frame_number = before[i].frame_number
                /\ after[i].walk_action_updates = WithoutIds(before[i].walk_action_updates, ids)
            /\ TouchedFrames(before, after) # {} =>
                /\ player_actions_updates'.oldest_updated_frame \in TouchedFrames(before, after)
                /\ \A f \in TouchedFrames(before, after) :
                    player_actions_updates'.oldest_updated_frame <= f
    ]_vars

\* C6 (amended): DiscardWalkActions(ids) removes, for each entry of ids, at
\* most one buffered walk action with that client_action_id, taking the
\* newest frames first; every other buffered action stays where it is, in
\* order; oldest_updated_frame becomes the earliest frame an action was
\* removed from and stays as it was when none was removed.
C6_DiscardRemovesOnePerEntry ==
    [][Dispatching("DiscardWalkActions") =>
        LET ids == Head(connection_events).payload.ids
            before == player_actions_updates.updates
            after == player_actions_updates'.updates
        IN  /\ Len(after) = Len(before)
            /\ \A i \in 1..Len(before) :
                /\ after[i].frame_number = before[i].frame_number
                /\ WithoutIds(after[i].walk_action_updates, ids)
                    = WithoutIds(before[i].walk_action_updates, ids)
                /\ \A id \in ActionIds :
                    CountInFrame(after[i].walk_action_updates, id)
                        <= CountInFrame(before[i].walk_action_updates, id)
            /\ \A id \in ActionIds :
                /\ CountBuffered(after, id) =
                    IF CountBuffered(before, id) > CountEntries(ids, id)
                    THEN CountBuffered(before, id) - CountEntries(ids, id)
                    ELSE 0
                /\ \A i \in 1..Len(before) : \A j \in (i + 1)..Len(before) :
                    CountInFrame(after[j].walk_action_updates, id) > 0 =>
                        CountInFrame(after[i].walk_action_updates, id)
                            = CountInFrame(before[i].walk_action_updates, id)
            /\ IF TouchedFrames(before, after) = {}
               THEN player_actions_updates'.oldest_updated_frame
                        = player_actions_updates.oldest_updated_frame
               ELSE /\ player_actions_updates'.oldest_updated_frame
                        \in TouchedFrames(before, after)
                    /\ \A f \in TouchedFrames(before, after) :
                        player_actions_updates'.oldest_updated_frame <= f
    ]_vars

\* C6 witness: DiscardWalkActions([1]) has been dispatched on a buffer with
\* action 1 in its last frame and in the frame before: the one of the last
\* frame is gone, the older one is still buffered, and oldest_updated_frame is
\* the last frame
C6_Witness ==
    LET updates == player_actions_updates.updates
        n == Len(updates)
    IN  /\ Dispatched("DiscardWalkActions")
        /\ last_event.event.payload.ids = <<1>>
        /\ n >= 2
        /\ updates[n].walk_action_updates = <<WalkUpdate(2)>>
        /\ updates[n - 1].walk_action_updates = <<WalkUpdate(1)>>
        /\ player_actions_updates.oldest_updated_frame = updates[n].frame_number

\* C4: a message whose session id is not the one of the connection record
\* changes nothing of the room, the game, the AckCursor, the frame buffers or
\* the connection record, and sends nothing, whatever its payload.
C4_OtherSessionChangesNothing ==
    [][(/\ pc = "dispatch"
        /\ connection_events # <<>>
        /\ IsMessage(Head(connection_events))
        /\ Head(connection_events).session_id # net_connection_models[1].session_id) =>
        /\ UNCHANGED <<multiplayer_room_state, multiplayer_game_state,
                       last_acknowledged_update, framed_updates, spawn_actions,
                       player_actions_updates, net_connection_models, transport,
                       new_game_engine_state>>
        /\ pc' = "dispatch"
    ]_vars

\* C4 witness: in the game, with players lagging and a walk action buffered,
\* an UpdateWorld of another session has been taken from the queue and no
\* acknowledgement has been sent
C4_Witness ==
    /\ last_event.outcome = "ignored_session"
    /\ IsPayload(last_event.event, "UpdateWorld")
    /\ multiplayer_game_state.is_playing
    /\ multiplayer_game_state.lagging_players = <<101>>
    /\ player_actions_updates.updates # <<>>
    /\ last_acknowledged_update = [id |-> 0, frame_number |-> 0]
    /\ transport = <<>>

\* frames_ahead as the specification defines it
FramesAheadNow ==
    LET delayed == IF last_acknowledged_update.frame_number > INTERPOLATION_FRAME_DELAY
                   THEN last_acknowledged_update.frame_number - INTERPOLATION_FRAME_DELAY
                   ELSE 0
    IN  IF game_time.game_frame > delayed THEN game_time.game_frame - delayed ELSE 0

\* The step is the end of a run of a game in progress
EndOfPlayingRun ==
    /\ pc = "dispatch"
    /\ connection_events = <<>>
    /\ pc' = "idle"
    /\ game_engine_state = "Playing"
    /\ multiplayer_game_state.is_playing

\* C5 as stated: waiting_network goes from false to true only in a run with
\* frames_ahead > PAUSE_FRAME_THRESHOLD and from true to false only in a run
\* with frames_ahead = 0.  The first run of a game refutes it: it sets
\* waiting_network with frames_ahead = 0.
C5_PauseHysteresisEverywhere ==
    [][multiplayer_game_state'.waiting_network # multiplayer_game_state.waiting_network =>
        /\ EndOfPlayingRun
        /\ IF multiplayer_game_state'.waiting_network
           THEN FramesAheadNow > PAUSE_FRAME_THRESHOLD
           ELSE FramesAheadNow = 0
    ]_vars

\* C5 (amended): waiting_network changes only at the end of a run of a game
\* in progress.  Past absolute frame INTERPOLATION_FRAME_DELAY it goes from
\* false to true only with frames_ahead > PAUSE_FRAME_THRESHOLD and from true
\* to false only with frames_ahead = 0; before that frame a run sets it, and at
\* that frame a run leaves it true exactly if
\* frames_ahead > PAUSE_FRAME_THRESHOLD.
C5_PauseHysteresisAfterStart ==
    [][/\ multiplayer_game_state'.waiting_network # multiplayer_game_state.waiting_network =>
            /\ EndOfPlayingRun
            /\ game_time.game_frame_abs > INTERPOLATION_FRAME_DELAY =>
                IF multiplayer_game_state'.waiting_network
                THEN FramesAheadNow > PAUSE_FRAME_THRESHOLD
                ELSE FramesAheadNow = 0
       /\ (EndOfPlayingRun /\ game_time.game_frame_abs < INTERPOLATION_FRAME_DELAY) =>
            multiplayer_game_state'.waiting_network
       /\ (EndOfPlayingRun /\ game_time.game_frame_abs = INTERPOLATION_FRAME_DELAY) =>
            multiplayer_game_state'.waiting_network
                = (FramesAheadNow > PAUSE_FRAME_THRESHOLD)
    ]_vars

\* C5 witness: past the first frames, the server has acknowledged nothing and
\* the client is 25 frames ahead: the run that has just ended has set
\* waiting_network
C5_Witness ==
    /\ last_event = NetworkPauseChanged
    /\ multiplayer_game_state.is_playing
    /\ multiplayer_game_state.waiting_network
    /\ game_time.game_frame_abs > INTERPOLATION_FRAME_DELAY
    /\ FramesAheadNow > PAUSE_FRAME_THRESHOLD

\* C5 witness of the way back: the client had waited, the server has caught
\* up (frames_ahead = 0) and the run that has just ended has cleared
\* waiting_network
C5_WitnessCleared ==
    /\ last_event = NetworkPauseChanged
    /\ multiplayer_game_state.is_playing
    /\ ~multiplayer_game_state.waiting_network
    /\ game_time.game_frame_abs > INTERPOLATION_FRAME_DELAY
    /\ game_time.game_frame > 0
    /\ FramesAheadNow = 0

\* How many JoinRoom messages the transport holds
JoinRoomsIn(messages) ==
    Cardinality({k \in 1..Len(messages) : messages[k].payload.type = "JoinRoom"})

\* A joiner that has asked for a room and has no connection record yet
JoinerWithoutRecord ==
    /\ multiplayer_room_state.is_active
    /\ ~multiplayer_room_state.is_host
    /\ is_connecting(multiplayer_room_state.connection_status)
    /\ ~multiplayer_room_state.has_sent_join_message
    /\ net_connection_models = <<>>

\* C11: the run of a joiner in status Connecting with an active room and no
\* connection record makes exactly one record and sends exactly one reliable
\* JoinRoom with the nickname of the room, and the status stays Connecting; a
\* JoinRoom is sent only by a step that sets has_sent_join_message, which no
\* step clears, so a session sends at most one JoinRoom over its bootstrap and
\* Handshake paths.
C11_JoinerJoinsOnce ==
    [][/\ (JoinerWithoutRecord /\ TickBegin) =>
            /\ Len(net_connection_models') = 1
            /\ transport' = <<Reliable(JoinRoom(multiplayer_room_state.nickname))>>
            /\ multiplayer_room_state'.connection_status = StConnecting
       /\ JoinRoomsIn(transport') > JoinRoomsIn(transport) =>
            /\ ~multiplayer_room_state.has_sent_join_message
            /\ multiplayer_room_state'.has_sent_join_message
            /\ transport' = Append(transport, Reliable(JoinRoom(multiplayer_room_state.nickname)))
       /\ multiplayer_room_state.has_sent_join_message =>
            multiplayer_room_state'.has_sent_join_message
    ]_vars

\* C11 witness: the run of the joiner has ended with no Handshake received:
\* one record, one JoinRoom{"Al"} in the transport, status Connecting
C11_Witness ==
    /\ pc = "idle"
    /\ Len(net_connection_models) = 1
    /\ ~multiplayer_room_state.is_host
    /\ multiplayer_room_state.connection_status = StConnecting
    /\ multiplayer_room_state.has_sent_join_message
    /\ transport = <<Reliable(JoinRoom("Al"))>>
    /\ connection_events = <<>>

\* The drain loop is about to absorb a non-empty UpdateWorld batch
AbsorbingBatch ==
    /\ Dispatching("UpdateWorld")
    /\ Head(connection_events).payload.id > last_acknowledged_update.id
    /\ Head(connection_events).payload.updates # <<>>

\* The first (lowest) frame of the batch at the head of the queue
FirstBatchFrame ==
    LET frames == FrameNumbers(Head(connection_events).payload.updates)
    IN  CHOOSE f \in frames : \A g \in frames : f <= g

\* That frame less INTERPOLATION_FRAME_DELAY, not below 0
DelayedBatchFrame ==
    IF FirstBatchFrame > INTERPOLATION_FRAME_DELAY
    THEN FirstBatchFrame - INTERPOLATION_FRAME_DELAY
    ELSE 0

\* The front frame of the general buffer (0 for a buffer still empty, whose
\* first reserved slot is frame 0)
FrontFrame ==
    IF framed_updates.updates = <<>> THEN 0 ELSE framed_updates.updates[1].frame_number

\* C12: an absorbed non-empty batch whose first frame less
\* INTERPOLATION_FRAME_DELAY is below the front frame of the general buffer
\* ends in a fatal failure and writes no slot (the slots there were stay as
\* they are, the slots reserved for it stay empty); a batch whose delayed first
\* frame is at or after the front frame does not fail.
C12_TooOldBatchIsFatal ==
    [][AbsorbingBatch =>
        IF DelayedBatchFrame < FrontFrame
        THEN /\ pc' = "panicked"
             /\ \A i \in 1..Len(framed_updates'.updates) :
                    framed_updates'.updates[i] =
                        IF i <= Len(framed_updates.updates)
                        THEN framed_updates.updates[i]
                        ELSE NewReceivedServerWorldUpdate(framed_updates'.updates[i].frame_number)
             /\ \A i \in 1..Len(spawn_actions'.updates) :
                    spawn_actions'.updates[i] =
                        IF i <= Len(spawn_actions.updates)
                        THEN spawn_actions.updates[i]
                        ELSE NewSpawnActions(spawn_actions'.updates[i].frame_number)
        ELSE pc' = "dispatch"
    ]_vars

\* C12 witness: the buffer starts at frame 2 and the batch of frames 11, 12
\* (delayed first frame 1) has been absorbed: the run has panicked and the
\* slots reserved up to frame 12 are empty
C12_Witness ==
    /\ pc = "panicked"
    /\ Dispatched("UpdateWorld")
    /\ last_event.event.payload.updates = BatchUnsorted
    /\ framed_updates.updates[1].frame_number = 2
    /\ Len(framed_updates.updates) = 11
    /\ \A i \in 1..Len(framed_updates.updates) :
        framed_updates.updates[i] = NewReceivedServerWorldUpdate(i + 1)

\* C12 witness of the other side: the buffer starts at frame 2 and the batch
\* of frames 13, 14 (delayed first frame 3) has been merged without a failure
C12_WitnessMerged ==
    /\ pc = "dispatch"
    /\ Dispatched("UpdateWorld")
    /\ last_event.event.payload.updates = BatchLate
    /\ framed_updates.updates[1].frame_number = 2
    /\ framed_updates.oldest_updated_frame = 3
    /\ last_acknowledged_update.frame_number = 14

\* The indexes of the slots of the general buffer that the step has written:
\* those that differ from what they were, or from the empty slot reserved
MutatedSlots ==
    {i \in 1..Len(framed_updates'.updates) :
        framed_updates'.updates[i] #
            IF i <= Len(framed_updates.updates)
            THEN framed_updates.updates[i]
            ELSE NewReceivedServerWorldUpdate(framed_updates'.updates[i].frame_number)}

\* C13: a merge of a non-empty batch with first frame F walks the slots of
\* the general buffer front to back, which is in ascending frame order; after
\* it oldest_updated_frame is F less INTERPOLATION_FRAME_DELAY (not below 0)
\* and no slot of a lower frame has been written.
C13_MergeAscendsFromDelayedFrame ==
    [][(AbsorbingBatch /\ pc' = "dispatch") =>
        /\ framed_updates'.oldest_updated_frame = DelayedBatchFrame
        /\ \A i \in MutatedSlots :
            framed_updates'.oldest_updated_frame <= framed_updates'.updates[i].frame_number
        /\ \A i \in 1..Len(framed_updates'.updates) :
            framed_updates'.updates[i].frame_number
                = framed_updates'.updates[1].frame_number + i - 1
    ]_vars

\* C13 witness: the buffer starts at frame 0 and the batch of frames 13, 14
\* has been merged: oldest_updated_frame is 3, slot 3 holds the client's own
\* walk action and the slots of frames 0..2 are empty
C13_Witness ==
    /\ pc = "dispatch"
    /\ Dispatched("UpdateWorld")
    /\ last_event.event.payload.updates = BatchLate
    /\ last_acknowledged_update.id = 1
    /\ framed_updates.oldest_updated_frame = 3
    /\ framed_updates.updates[1].frame_number = 0
    /\ framed_updates.updates[4].controlled_player_updates.player_walk_actions_updates
        = <<Action(102, 13)>>
    /\ \A i \in 1..3 : framed_updates.updates[i] = NewReceivedServerWorldUpdate(i - 1)

\* C14: the system keeps at most one connection record.  A run makes a record
\* only when the room is active, there is none, and the status is Connected,
\* or Connecting of a client that is not the host; a run with the room
\* inactive ends at once with no record left, whatever the status and the
\* flags; the drain loop and the tail of a run make and drop no record.
C14_OneRecordWhileRoomActive ==
    [][/\ TickBegin =>
            /\ Len(net_connection_models') <= 1
            /\ Len(net_connection_models') > Len(net_connection_models) =>
                /\ multiplayer_room_state.is_active
                /\ net_connection_models = <<>>
                /\ \/ is_connected(multiplayer_room_state.connection_status)
                   \/ /\ is_connecting(multiplayer_room_state.connection_status)
                      /\ ~multiplayer_room_state.is_host
            /\ ~multiplayer_room_state.is_active =>
                /\ net_connection_models' = <<>>
                /\ pc' = "idle"
       /\ (DispatchEvent \/ TickEnd) =>
            /\ Len(net_connection_models') = Len(net_connection_models)
            /\ Len(net_connection_models') <= 1
    ]_vars

\* C14 witness: a client that had a record and status Connected has left the
\* room with a disconnect still pending, and the run after that has dropped
\* the record
C14_Witness ==
    /\ pc = "idle"
    /\ ~multiplayer_room_state.is_active
    /\ is_connected(multiplayer_room_state.connection_status)
    /\ multiplayer_room_state.pending_disconnecting
    /\ session_id_autoinc > SessionId
    /\ net_connection_models = <<>>

\* The step is a step of the system within one session: the connection record
\* is there before and after it, with the same session id
StepOfSession ==
    /\ TickBegin \/ DispatchEvent \/ TickEnd
    /\ net_connection_models # <<>>
    /\ net_connection_models' # <<>>
    /\ net_connection_models'[1].session_id = net_connection_models[1].session_id

\* C15 as stated: once the status is Disconnected(reason) or ConnectionFailed,
\* no event and no run of the same session changes it.  A Handshake of the
\* session taken after a local disconnect refutes it: the status becomes
\* Connected again.
C15_NotConnectedIsTerminal ==
    [][(StepOfSession /\ is_not_connected(multiplayer_room_state.connection_status)) =>
        multiplayer_room_state'.connection_status = multiplayer_room_state.connection_status
    ]_vars

\* The messages of this payload among those handed to the transport
SentOf(out, payload) == {i \in 1..Len(out) : out[i] = Reliable(payload)}

\* The run that begins reaches line 185 with a disconnect pending: it has a
\* record at line 178 and has neither returned nor panicked before
PendingDisconnectStep ==
    /\ TickBegin
    /\ multiplayer_room_state.pending_disconnecting
    /\ pc' = "dispatch"

\* The server process of a host has exited and the run will see it
ServerHasExited == server_command.started /\ server_command.exit_code # Running

\* C16: a run with a disconnect pending and a connection record sends exactly
\* one reliable Disconnect, clears pending_disconnecting, marks the record
\* disconnected, and sets the status to Disconnected(Closed) if the client is
\* not the host; the status of a host is left as it was by this step.
C16_PendingDisconnectCloses ==
    [][PendingDisconnectStep =>
        /\ Cardinality(SentOf(transport', ClientDisconnect)) = 1
        /\ ~multiplayer_room_state'.pending_disconnecting
        /\ net_connection_models'[1].disconnected
        /\ ~multiplayer_room_state.is_host =>
                multiplayer_room_state'.connection_status = StDisconnected("Closed")
        /\ (multiplayer_room_state.is_host /\ ~ServerHasExited) =>
                multiplayer_room_state'.connection_status =
                    multiplayer_room_state.connection_status
        /\ multiplayer_room_state.is_host =>
                multiplayer_room_state'.connection_status =
                    ProbeServerCommand(State).room.connection_status
    ]_vars

\* C16 witness: a host that was Connected has closed its connection and is
\* still Connected, the Disconnect handed to the transport
C16_Witness ==
    /\ pc = "dispatch"
    /\ multiplayer_room_state.is_host
    /\ is_connected(multiplayer_room_state.connection_status)
    /\ ~multiplayer_room_state.pending_disconnecting
    /\ net_connection_models # <<>>
    /\ net_connection_models[1].disconnected
    /\ Cardinality(SentOf(transport, ClientDisconnect)) = 1

\* C16 witness: a joining client has closed its connection in the run that
\* made the record: JoinRoom and Disconnect are both sent, the status is
\* Disconnected(Closed)
C16_WitnessJoiner ==
    /\ pc = "dispatch"
    /\ ~multiplayer_room_state.is_host
    /\ multiplayer_room_state.connection_status = StDisconnected("Closed")
    /\ net_connection_models # <<>>
    /\ net_connection_models[1].disconnected
    /\ transport = <<Reliable(JoinRoom(multiplayer_room_state.nickname)),
                     Reliable(ClientDisconnect)>>

\* The status was decided on this side: the host is shutting its server down,
\* or the connection was closed here and the record marked
LocallyDecided ==
    \/ multiplayer_room_state.connection_status = StDisconnecting
    \/ /\ net_connection_models # <<>>
       /\ net_connection_models[1].disconnected

\* C17: a Disconnect(reason) handed to its arm leaves a status that is not
\* connected, or Disconnecting, as it is, and sets any other status to
\* Disconnected(reason); and a Disconnect message taken from the queue, by the
\* arm or by a filter, never changes a status decided on this side.
C17_PeerDisconnectKeepsLocalStatus ==
    [][/\ (DispatchEvent /\ Dispatching("Disconnect")) =>
            multiplayer_room_state'.connection_status =
                IF \/ is_not_connected(multiplayer_room_state.connection_status)
                   \/ multiplayer_room_state.connection_status = StDisconnecting
                THEN multiplayer_room_state.connection_status
                ELSE StDisconnected(Head(connection_events).payload.reason)
       /\ (/\ DispatchEvent
           /\ IsPayload(Head(connection_events), "Disconnect")
           /\ LocallyDecided) =>
            multiplayer_room_state'.connection_status =
                multiplayer_room_state.connection_status
    ]_vars

\* C17 witness: the Disconnect of the server has gone through its arm while
\* the host was shutting down, and the status is still Disconnecting
C17_Witness ==
    /\ Dispatched("Disconnect")
    /\ multiplayer_room_state.connection_status = StDisconnecting

\* C17 witness: the Disconnect of the server has closed a connection that
\* nothing had closed on this side
C17_WitnessKicked ==
    /\ Dispatched("Disconnect")
    /\ multiplayer_room_state.connection_status = StDisconnected("Kicked")
    /\ ~net_connection_models[1].disconnected

\* C17 witness: the Disconnect of the server came after the connection was
\* closed on this side and was dropped
C17_WitnessDropped ==
    /\ IsPayload(last_event.event, "Disconnect")
    /\ last_event.outcome = "ignored_disconnected"
    /\ multiplayer_room_state.connection_status = StDisconnected("Closed")

\* The drain loop is about to take an event that is neither the Disconnected
\* event of the transport nor a Handshake, the record being marked disconnected
DrainingAfterDisconnect ==
    /\ DispatchEvent
    /\ net_connection_models[1].disconnected
    /\ Head(connection_events).kind # "Disconnected"
    /\ ~IsPayload(Head(connection_events), "Handshake")

\* C18: while the connection record is marked disconnected, an event other
\* than the Disconnected event of the transport or a Handshake changes nothing
\* of the room, the game, the acknowledged update or the three frame buffers,
\* and hands nothing to the transport.
C18_DisconnectedRecordDropsEvents ==
    [][DrainingAfterDisconnect =>
        /\ pc' = "dispatch"
        /\ UNCHANGED <<multiplayer_room_state, multiplayer_game_state,
                       last_acknowledged_update, framed_updates, spawn_actions,
                       player_actions_updates, transport, net_connection_models,
                       new_game_engine_state>>
    ]_vars

\* C18 witness: an UpdateWorld of the session, with an id above the
\* acknowledged one, was dropped for a record marked disconnected
C18_Witness ==
    /\ IsPayload(last_event.event, "UpdateWorld")
    /\ last_event.event.session_id = net_connection_models[1].session_id
    /\ last_event.event.payload.id > last_acknowledged_update.id
    /\ last_event.outcome = "ignored_disconnected"
    /\ net_connection_models[1].disconnected

\* The drain loop is about to take a lobby message while the game is on
DrainingLobbyMessageInGame ==
    /\ DispatchEvent
    /\ multiplayer_game_state.is_playing
    /\ \/ IsPayload(Head(connection_events), "Handshake")
       \/ IsPayload(Head(connection_events), "UpdateRoomPlayers")
       \/ IsPayload(Head(connection_events), "StartGame")

\* C19: while is_playing holds, a Handshake, an UpdateRoomPlayers or a
\* StartGame changes nothing: the roster, the connection status, the host
\* flag, player_net_id and the acknowledged update stay as they were, also for
\* a StartGame that follows another in the same run.
C19_LobbyMessagesDroppedInGame ==
    [][DrainingLobbyMessageInGame =>
        /\ pc' = "dispatch"
        /\ UNCHANGED <<multiplayer_room_state, multiplayer_game_state,
                       last_acknowledged_update, framed_updates, spawn_actions,
                       player_actions_updates, transport, new_game_engine_state>>
    ]_vars

\* C19 witness: a StartGame with the entity ids the other way round was
\* dropped in the run that started the game (the engine has not changed state
\* yet), and player_net_id is the one the first StartGame gave
C19_Witness ==
    /\ pc = "dispatch"
    /\ last_event.event = Message(SessionId, StartGame(SwappedEntityNetIds))
    /\ last_event.outcome = "ignored_playing"
    /\ game_engine_state = "Menu"
    /\ new_game_engine_state = "Playing"
    /\ multiplayer_game_state.is_playing
    /\ multiplayer_room_state.player_net_id = 102

\* C19 witness: a StartGame was dropped after a world update had been
\* acknowledged, and the acknowledged update is still there
C19_WitnessCursorKept ==
    /\ IsPayload(last_event.event, "StartGame")
    /\ last_event.outcome = "ignored_playing"
    /\ last_acknowledged_update.id = 1

\* C19 witness: a Handshake naming another connection was dropped in the game
C19_WitnessHandshake ==
    /\ IsPayload(last_event.event, "Handshake")
    /\ last_event.outcome = "ignored_playing"
    /\ multiplayer_room_state.connection_status = StConnected(LocalConnectionId)
    /\ ~multiplayer_room_state.is_host

\* The actions of an entity in a list of actions, and those of the others
ActionsOf(actions, entity_net_id) ==
    LET is_of(a) == a.entity_net_id = entity_net_id
    IN  SelectSeq(actions, is_of)

ActionsOfOthers(actions, entity_net_id) ==
    LET is_other(a) == a.entity_net_id # entity_net_id
    IN  SelectSeq(actions, is_other)

\* What a server update holds for the entities the client does not control
NonControlledPart(update, entity_net_id) ==
    [player_walk_actions_updates |->
        ActionsOfOthers(update.player_walk_actions_updates, entity_net_id),
     player_cast_actions_updates |->
        ActionsOfOthers(update.player_cast_actions_updates, entity_net_id),
     player_look_actions_updates |->
        ActionsOfOthers(update.player_look_actions_updates, entity_net_id)]

\* All the actions of a server update, as a slot keeps them
WholePart(update) ==
    [player_walk_actions_updates |-> update.player_walk_actions_updates,
     player_cast_actions_updates |-> update.player_cast_actions_updates,
     player_look_actions_updates |-> update.player_look_actions_updates]

\* The walk and cast actions of the controlled player in a server update (the
\* batches of the model have one such action in a list at most)
ControlledPart(update, entity_net_id) ==
    [player_walk_actions_updates |->
        ActionsOf(update.player_walk_actions_updates, entity_net_id),
     player_cast_actions_updates |->
        ActionsOf(update.player_cast_actions_updates, entity_net_id)]

\* The batch at the head of the queue, lowest frame first
SortedBatch == SortByFrame(Head(connection_events).payload.updates)

\* The updates at the head of the sorted batch that collect_controlled_player_updates
\* skips: those of a frame below INTERPOLATION_FRAME_DELAY
SkippedOnStart ==
    Cardinality({i \in 1..Len(SortedBatch) :
                    SortedBatch[i].frame_number < INTERPOLATION_FRAME_DELAY})

\* The slot of frame f of a buffer whose slots are of consecutive frames
SlotAt(fb, f) == fb.updates[f - fb.updates[1].frame_number + 1]

\* C20 as stated: the i-th update of an absorbed batch with first frame F
\* leaves its non-controlled actions and its controlled player's update both
\* in the slot of frame F - INTERPOLATION_FRAME_DELAY + i of the general buffer.
C20_BothWrittenFromDelayedFrame ==
    [][(AbsorbingBatch /\ pc' = "dispatch") =>
        \A i \in 1..Len(SortedBatch) :
            LET slot == SlotAt(framed_updates', DelayedBatchFrame + i - 1)
            IN  /\ slot.server_update =
                    NonControlledPart(SortedBatch[i], multiplayer_room_state.player_net_id)
                /\ slot.controlled_player_updates =
                    ControlledPart(SortedBatch[i], multiplayer_room_state.player_net_id)
    ]_vars

\* C20: of an absorbed batch with first frame F, the i-th update leaves its
\* actions in the slot of frame F + i, without the controlled player's unless
\* the update is one skipped on start; the k-th update after those skipped
\* leaves the controlled player's walk and cast action in the slot of frame
\* F - INTERPOLATION_FRAME_DELAY + k (counted from 0, the difference not below
\* 0), and the slots after those get no controlled player's update from it.
C20_OthersFromFirstFrameControlledDelayed ==
    [][(AbsorbingBatch /\ pc' = "dispatch") =>
        /\ \A i \in 1..Len(SortedBatch) :
            SlotAt(framed_updates', FirstBatchFrame + i - 1).server_update =
                IF i <= SkippedOnStart
                THEN WholePart(SortedBatch[i])
                ELSE NonControlledPart(SortedBatch[i], multiplayer_room_state.player_net_id)
        /\ \A k \in 1..(Len(SortedBatch) - SkippedOnStart) :
            SlotAt(framed_updates', DelayedBatchFrame + k - 1).controlled_player_updates =
                ControlledPart(SortedBatch[SkippedOnStart + k],
                               multiplayer_room_state.player_net_id)
    ]_vars

\* C20 witness: the batch of frames 10, 11 has been merged into a buffer that
\* starts at frame 0: the walk action of entity 101 is in the slot of frame
\* 10, the walk and cast action of the client's own entity 102 in the slot of
\* frame 0, and the slot of frame 0 holds nothing of entity 101
C20_Witness ==
    /\ pc = "dispatch"
    /\ Dispatched("UpdateWorld")
    /\ last_event.event.payload.updates = BatchSorted
    /\ last_acknowledged_update.id = 1
    /\ framed_updates.updates[1].frame_number = 0
    /\ framed_updates.updates[11].server_update.player_walk_actions_updates
        = <<Action(101, 1)>>
    /\ framed_updates.updates[1].controlled_player_updates
        = [player_walk_actions_updates |-> <<Action(102, 2)>>,
           player_cast_actions_updates |-> <<Action(102, 3)>>]
    /\ framed_updates.updates[1].server_update = NoServerUpdate

\* C20 witness: the batch of frames 9, 11 has been merged: the update of
\* frame 9 is skipped on start and keeps the client's walk action in the slot
\* of frame 9, the update of frame 11 leaves the client's walk action in the
\* slot of frame 0 and the rest in the slot of frame 10
C20_WitnessSkippedOnStart ==
    /\ pc = "dispatch"
    /\ Dispatched("UpdateWorld")
    /\ last_event.event.payload.updates = BatchGap
    /\ last_acknowledged_update.id = 1
    /\ framed_updates.updates[1].frame_number = 0
    /\ framed_updates.updates[10].server_update.player_walk_actions_updates
        = <<Action(102, 10)>>
    /\ framed_updates.updates[1].controlled_player_updates.player_walk_actions_updates
        = <<Action(102, 11)>>
    /\ framed_updates.updates[11].server_update.player_walk_actions_updates
        = <<Action(101, 12)>>

\* C21 as stated: of an absorbed batch, sorted, each update's spawn_actions
\* are in the slot of the spawn buffer whose frame is the update's own
\* frame_number, and oldest_updated_frame of the spawn buffer is the first
\* frame of the batch.  The batch of frames 9, 11 refutes it: the spawn
\* actions of frame 11 are written to the slot of frame 10.
C21_SpawnsAtOwnFrame ==
    [][(AbsorbingBatch /\ pc' = "dispatch") =>
        /\ spawn_actions'.oldest_updated_frame = FirstBatchFrame
        /\ \A i \in 1..Len(SortedBatch) :
            SlotAt(spawn_actions', SortedBatch[i].frame_number).spawn_actions
                = SortedBatch[i].spawn_actions
    ]_vars

\* The least of a non-empty set of frames
LeastFrame(frames) == CHOOSE f \in frames : \A g \in frames : f <= g

\* C22 as stated: a DiscardWalkActions never raises oldest_updated_frame of
\* the player-action buffer: the new value is the lesser of the value before
\* and the earliest frame an action was removed from, and the value before if
\* nothing was removed.  A removal in frame 1 with the value 0 refutes it.
C22_DiscardNeverRaisesOldest ==
    [][Dispatching("DiscardWalkActions") =>
        LET touched == TouchedFrames(player_actions_updates.updates,
                                     player_actions_updates'.updates)
            before == player_actions_updates.oldest_updated_frame
        IN  player_actions_updates'.oldest_updated_frame =
                IF touched = {} THEN before
                ELSE IF LeastFrame(touched) < before THEN LeastFrame(touched)
                ELSE before
    ]_vars

\* C23: at the end of a run of a game in progress (engine state Playing,
\* is_playing, a connection record), waiting_network is true if the absolute
\* frame is below INTERPOLATION_FRAME_DELAY and false if it is that frame; at
\* a later frame the flag follows the steady rule alone: once set it stays
\* until frames_ahead is 0, and it is set only with
\* frames_ahead > PAUSE_FRAME_THRESHOLD.
C23_StartupPause ==
    [][EndOfPlayingRun =>
        /\ game_time.game_frame_abs < INTERPOLATION_FRAME_DELAY =>
                multiplayer_game_state'.waiting_network
        /\ game_time.game_frame_abs = INTERPOLATION_FRAME_DELAY =>
                ~multiplayer_game_state'.waiting_network
        /\ game_time.game_frame_abs > INTERPOLATION_FRAME_DELAY =>
                multiplayer_game_state'.waiting_network =
                    IF multiplayer_game_state.waiting_network
                    THEN FramesAheadNow # 0
                    ELSE FramesAheadNow > PAUSE_FRAME_THRESHOLD
    ]_vars

\* C23 witness: the run at absolute frame INTERPOLATION_FRAME_DELAY, the game
\* frame as far on as it can be, has cleared the flag that the first runs set
C23_Witness ==
    /\ pc = "idle"
    /\ last_event = NetworkPauseChanged
    /\ multiplayer_game_state.is_playing
    /\ game_time = Time(10, 10, 10)
    /\ ~multiplayer_game_state.waiting_network

\* C23 witness: a run before absolute frame INTERPOLATION_FRAME_DELAY has set
\* the flag
C23_WitnessSet ==
    /\ pc = "idle"
    /\ last_event = NetworkPauseChanged
    /\ multiplayer_game_state.is_playing
    /\ game_time.game_frame_abs < INTERPOLATION_FRAME_DELAY
    /\ multiplayer_game_state.waiting_network

\* The step is the tail of a run: the queue is drained and the run ends
EndOfRun ==
    /\ pc = "dispatch"
    /\ connection_events = <<>>
    /\ pc' = "idle"

\* The frame of the last slot of the general buffer, 0 for an empty buffer
BackFrame ==
    IF framed_updates.updates = <<>> THEN 0
    ELSE framed_updates.updates[Len(framed_updates.updates)].frame_number

\* C24: the tail of a run with lagging_players not empty leaves
\* waiting_for_players true exactly if the game frame plus
\* INTERPOLATION_FRAME_DELAY is at or past the back frame of the general buffer
\* (0 for an empty buffer); with lagging_players empty it leaves
\* waiting_for_players as it was.
C24_WaitingForPlayersRecomputed ==
    [][EndOfRun =>
        multiplayer_game_state'.waiting_for_players =
            IF multiplayer_game_state.lagging_players # <<>>
            THEN game_time.game_frame + INTERPOLATION_FRAME_DELAY >= BackFrame
            ELSE multiplayer_game_state.waiting_for_players
    ]_vars

\* C24 witness: with a player lagging, the run at engine frame 40 (it has sent
\* its heartbeat) has found the game frame 30 exactly INTERPOLATION_FRAME_DELAY
\* behind the back frame 40 of the buffer, and has set waiting_for_players
C24_Witness ==
    /\ pc = "idle"
    /\ game_time = Time(40, 30, 40)
    /\ last_heartbeat_frame = 40
    /\ multiplayer_game_state.lagging_players # <<>>
    /\ BackFrame = 40
    /\ multiplayer_game_state.waiting_for_players

\* C24 witness: with a player lagging, the run at engine frame 21 has found
\* frames left in the buffer (game frame 5, back frame 25) and has left
\* waiting_for_players false
C24_WitnessCleared ==
    /\ pc = "idle"
    /\ game_time = Time(21, 5, 21)
    /\ last_heartbeat_frame = 21
    /\ multiplayer_game_state.lagging_players # <<>>
    /\ BackFrame = 25
    /\ ~multiplayer_game_state.waiting_for_players

\* The tail of the run that ends here sends a heartbeat: the record is not
\* marked disconnected and the engine frame is more than
\* HEARTBEAT_FRAME_INTERVAL past the frame of the last heartbeat
HeartbeatDue ==
    /\ ~net_connection_models[1].disconnected
    /\ game_time.engine_frame > last_heartbeat_frame + HEARTBEAT_FRAME_INTERVAL

\* C25: the tail of a run hands one reliable Heartbeat to the transport and
\* sets last_heartbeat_frame to the engine frame exactly if the record is not
\* marked disconnected then and the engine frame is more than 10 past
\* last_heartbeat_frame; otherwise it hands nothing over and keeps
\* last_heartbeat_frame.  No other step sends a Heartbeat or writes
\* last_heartbeat_frame, which is never past the engine frame.
C25_HeartbeatEveryInterval ==
    [][/\ EndOfRun =>
            IF HeartbeatDue
            THEN /\ transport' = Append(transport, Reliable(ClientHeartbeat))
                 /\ last_heartbeat_frame' = game_time.engine_frame
            ELSE /\ transport' = transport
                 /\ last_heartbeat_frame' = last_heartbeat_frame
       /\ ~EndOfRun =>
            /\ last_heartbeat_frame' = last_heartbeat_frame
            /\ Cardinality(SentOf(transport', ClientHeartbeat))
                    <= Cardinality(SentOf(transport, ClientHeartbeat))
       /\ last_heartbeat_frame' <= game_time'.engine_frame
    ]_vars

\* C25 witness: the run at engine frame 21 has just ended (the transport has
\* not flushed) ten frames after the heartbeat of frame 11, and has sent none
C25_Witness ==
    /\ pc = "idle"
    /\ game_time.engine_frame = 21
    /\ last_heartbeat_frame = 11
    /\ ~net_connection_models[1].disconnected
    /\ transport # <<>>
    /\ SentOf(transport, ClientHeartbeat) = {}

\* C25 witness: the run at engine frame 22 has just ended (the transport has
\* not flushed) and the last message it has sent is a heartbeat of that frame
C25_WitnessSent ==
    /\ pc = "idle"
    /\ game_time.engine_frame = 22
    /\ last_heartbeat_frame = 22
    /\ transport # <<>>
    /\ transport[Len(transport)] = Reliable(ClientHeartbeat)

\* C25 witness: the run that closed the connection has just ended, more than
\* ten frames after the last heartbeat, and has sent the Disconnect only
C25_WitnessDisconnected ==
    /\ pc = "idle"
    /\ net_connection_models[1].disconnected
    /\ game_time.engine_frame > last_heartbeat_frame + HEARTBEAT_FRAME_INTERVAL
    /\ transport = <<Reliable(ClientDisconnect)>>

\* C26 as stated: every run that ends leaves the inbound queue empty, also
\* when the room is inactive or there is no connection record.  A run that
\* returns before the drain loop refutes it: the events delivered before it
\* are still queued and a later run takes them.
C26_QueueEmptyAfterEveryRun ==
    [][((TickBegin \/ TickEnd) /\ pc' = "idle") => connection_events' = <<>>]_vars

====
